---- MODULE Spec2Model ----
(***************************************************************************)
(* guidebook-todo: the Task Collection (core/todo.rs), its storage         *)
(* boundary (core/storage.rs), the add/edit forms (tui/add_todo.rs,        *)
(* tui/edit_todo.rs, tui/forms) and the interactive search                 *)
(* (tui/search.rs).                                                        *)
(*                                                                         *)
(* Strings are sequences of one-character strings, so that trimming,       *)
(* lowercasing, splitting and formatting are computed and not assumed.     *)
(* Option<T> is a sequence of length 0 (None) or 1 (Some).                 *)
(***************************************************************************)
EXTENDS Integers, Sequences, FiniteSets, TLC

VARIABLES
    form,       \* SpecForm: the add or edit form: kind, fields, focus, open or closed
    ev,         \* SpecForm: history, the last key event and what its save did
    fnArg,      \* SpecTagsFn: the text validate_and_normalize_tags is applied to
    fnOut,      \* SpecTagsFn: the result of that application, once made
    search,     \* SpecSearch: the interactive search's view state
    req,        \* SpecSearch: history, what the last key press requested
    procs,      \* SpecProc: per process, its position, loaded collection and result
    saveCount,  \* SpecProc: history, the number of saves made so far
    list,       \* SpecList: the in-memory TodoList [next_id, todos]
    pending,    \* SpecList: todos returned by create_todo, not yet added
    issued,     \* SpecList: history, the ids create_todo has returned, in order
    file,       \* the backing file: the persisted TodoList
    now,        \* the clock read by Local::now()
    last        \* history: the last operation, its arguments and result

listVars == <<list, pending, issued>>
opVars == <<file, now, last>>
procVars == <<procs, saveCount>>
searchVars == <<search, req>>
formVars == <<form, ev>>
fnVars == <<fnArg, fnOut>>
uiVars == <<searchVars, formVars, fnVars>>
vars == <<form, ev, fnArg, fnOut, search, req, procs, saveCount, list, pending, issued, file, now, last>>

(***************************************************************************)
(* Bounds of the model.                                                    *)
(***************************************************************************)
MaxCreates == 2
MaxTime == 1
NumProcs == 2

(***************************************************************************)
(* Option and strings.                                                     *)
(***************************************************************************)
None == <<>>
Some(x) == <<x>>
IsSome(o) == Len(o) = 1
Unwrap(o) == o[1]

Whitespace == {" ", "\n", "\t"}

\* char::to_lowercase on the letters the model uses
LowerChar(c) ==
    CASE c = "A" -> "a" [] c = "B" -> "b" [] c = "D" -> "d" [] c = "F" -> "f"
      [] c = "I" -> "i" [] c = "P" -> "p" [] c = "T" -> "t" [] c = "U" -> "u"
      [] OTHER -> c

to_lowercase(s) == [i \in 1..Len(s) |-> LowerChar(s[i])]

RECURSIVE trim_start(_)
trim_start(s) ==
    IF s # <<>> /\ Head(s) \in Whitespace THEN trim_start(Tail(s)) ELSE s

RECURSIVE trim_end(_)
trim_end(s) ==
    IF s # <<>> /\ s[Len(s)] \in Whitespace
    THEN trim_end(SubSeq(s, 1, Len(s) - 1)) ELSE s

trim(s) == trim_end(trim_start(s))

\* str::replace(from, to) for a one-character pattern
replace(s, from, to) == [i \in 1..Len(s) |-> IF s[i] = from THEN to ELSE s[i]]

\* index of the first occurrence of c in s, 0 when absent
find_char(s, c) ==
    IF \E i \in 1..Len(s) : s[i] = c
    THEN CHOOSE i \in 1..Len(s) : s[i] = c /\ \A j \in 1..(i - 1) : s[j] # c
    ELSE 0

\* str::split(sep): always at least one piece
RECURSIVE split(_, _)
split(s, sep) ==
    LET i == find_char(s, sep) IN
    IF i = 0 THEN <<s>>
    ELSE <<SubSeq(s, 1, i - 1)>> \o split(SubSeq(s, i + 1, Len(s)), sep)

\* [String]::join(sep)
RECURSIVE join(_, _)
join(parts, sep) ==
    IF parts = <<>> THEN <<>>
    ELSE IF Len(parts) = 1 THEN parts[1]
    ELSE parts[1] \o <<sep>> \o join(Tail(parts), sep)

starts_with(s, c) == s # <<>> /\ s[1] = c

contains(seq, x) == \E i \in 1..Len(seq) : seq[i] = x

\* a string of n copies of c
Rep(c, n) == [i \in 1..n |-> c]

\* F applied to the value of v, v being evaluated once
With(v, F(_)) == CHOOSE r \in {F(x) : x \in {v}} : TRUE

(***************************************************************************)
(* Priority and Status (core/todo.rs).                                     *)
(***************************************************************************)
Priority == {"P0", "P1", "P2", "P3", "P4", "P5"}
Status == {"Todo", "InProgress", "Done", "Archived"}

Priority_default == "P2"
Status_default == "Todo"

\* format!("{:?}", status): the variant's name
Status_debug(st) ==
    CASE st = "Todo" -> <<"T", "o", "d", "o">>
      [] st = "InProgress" -> <<"I", "n", "P", "r", "o", "g", "r", "e", "s", "s">>
      [] st = "Done" -> <<"D", "o", "n", "e">>
      [] st = "Archived" -> <<"A", "r", "c", "h", "i", "v", "e", "d">>

\* format!("{:?}", priority)
Priority_debug(p) ==
    CASE p = "P0" -> <<"P", "0">> [] p = "P1" -> <<"P", "1">>
      [] p = "P2" -> <<"P", "2">> [] p = "P3" -> <<"P", "3">>
      [] p = "P4" -> <<"P", "4">> [] p = "P5" -> <<"P", "5">>

Err == [ok |-> FALSE, val |-> "error"]
Ok(v) == [ok |-> TRUE, val |-> v]

parse_status(status_str) ==
    LET l == to_lowercase(status_str) IN
    CASE l = <<"t", "o", "d", "o">> -> Ok("Todo")
      [] l = <<"i", "n", "p", "r", "o", "g", "r", "e", "s", "s">> -> Ok("InProgress")
      [] l = <<"i", "n", "-", "p", "r", "o", "g", "r", "e", "s", "s">> -> Ok("InProgress")
      [] l = <<"i", "n", "_", "p", "r", "o", "g", "r", "e", "s", "s">> -> Ok("InProgress")
      [] l = <<"d", "o", "n", "e">> -> Ok("Done")
      [] l = <<"a", "r", "c", "h", "i", "v", "e", "d">> -> Ok("Archived")
      [] OTHER -> Err

parse_priority(priority_str) ==
    LET l == to_lowercase(priority_str) IN
    CASE l = <<"p", "0">> -> Ok("P0") [] l = <<"p", "1">> -> Ok("P1")
      [] l = <<"p", "2">> -> Ok("P2") [] l = <<"p", "3">> -> Ok("P3")
      [] l = <<"p", "4">> -> Ok("P4") [] l = <<"p", "5">> -> Ok("P5")
      [] OTHER -> Err

(***************************************************************************)
(* Todo (core/todo.rs).                                                    *)
(***************************************************************************)
MaxTitleLen == 200
MaxCategoryLen == 50
MaxProjectLen == 100
MaxNotesLen == 2000
MaxTagLen == 30

Todo_new(title, t) ==
    [id |-> 0, title |-> title, priority |-> Priority_default,
     status |-> Status_default, tags |-> <<>>, category |-> None,
     project |-> None, created_date |-> t, finished_date |-> None,
     notes |-> None]

\* the characters of the model that take two bytes in UTF-8
TwoByteChars == {"é"}

\* str::len: the length of the text in bytes
str_len(s) == Len(s) + Cardinality({i \in 1..Len(s) : s[i] \in TwoByteChars})

validate_title(title) ==
    LET trimmed == trim(title) IN
    IF trimmed = <<>> THEN FALSE
    ELSE IF str_len(trimmed) > MaxTitleLen THEN FALSE
    ELSE TRUE

validate_category(category) == ~(str_len(category) > MaxCategoryLen)

validate_project(project) == ~(str_len(project) > MaxProjectLen)

validate_notes(notes) == ~(str_len(notes) > MaxNotesLen)

new_validated(title, t) ==
    IF ~validate_title(title) THEN Err
    ELSE Ok([id |-> 0, title |-> trim(title), priority |-> Priority_default,
             status |-> Status_default, tags |-> <<>>, category |-> None,
             project |-> None, created_date |-> t, finished_date |-> None,
             notes |-> None])

\* the tags collected by the iterator chain of validate_and_normalize_tags
normalize_tags(tags_input) ==
    LET parts == split(tags_input, ",")
        lowered == [i \in 1..Len(parts) |-> to_lowercase(trim(parts[i]))]
        kept == SelectSeq(lowered, LAMBDA s : s # <<>>)
    IN  [i \in 1..Len(kept) |-> replace(kept[i], " ", "_")]

validate_and_normalize_tags(tags_input) ==
    LET tags == normalize_tags(tags_input) IN
    IF \E i \in 1..Len(tags) : str_len(tags[i]) > MaxTagLen \/ contains(tags[i], " ")
    THEN Err
    ELSE Ok(tags)

\* the token applied without looking whether the tag is already there
update_tag_part_no_contains(tags, part) ==
    LET tag_part == trim(part) IN
    IF starts_with(tag_part, "+")
    THEN LET tag == to_lowercase(Tail(tag_part)) IN
         IF tag # <<>> THEN Append(tags, tag) ELSE tags
    ELSE IF starts_with(tag_part, "-")
    THEN LET tag == to_lowercase(Tail(tag_part)) IN
         SelectSeq(tags, LAMBDA t : t # tag)
    ELSE tags

\* one comma-separated token of a tag delta applied to a tag list
update_tag_part(tags, part) ==
    LET tag_part == trim(part) IN
    IF starts_with(tag_part, "+")
    THEN LET tag == to_lowercase(Tail(tag_part)) IN
         IF tag # <<>> /\ ~contains(tags, tag) THEN Append(tags, tag) ELSE tags
    ELSE IF starts_with(tag_part, "-")
    THEN LET tag == to_lowercase(Tail(tag_part)) IN
         SelectSeq(tags, LAMBDA t : t # tag)
    ELSE tags

RECURSIVE update_tag_parts(_, _)
update_tag_parts(tags, parts) ==
    IF parts = <<>> THEN tags
    ELSE update_tag_parts(update_tag_part(tags, Head(parts)), Tail(parts))

update_tags(tags, tags_str) == update_tag_parts(tags, split(tags_str, ","))

(***************************************************************************)
(* TodoList (core/todo.rs).                                                *)
(***************************************************************************)
TodoList_default == [next_id |-> 1, todos |-> <<>>]

\* a create_todo that numbers the new todo by the length of the collection
create_todo_by_len(l, title, t) ==
    [list |-> [l EXCEPT !.next_id = Len(l.todos) + 2],
     todo |-> [Todo_new(title, t) EXCEPT !.id = Len(l.todos) + 1]]

\* returns the collection with the counter advanced and the new todo; the u32
\* counter stays far below its width (the actions cap it at MaxCreates)
create_todo(l, title, t) ==
    [list |-> [l EXCEPT !.next_id = l.next_id + 1],
     todo |-> [Todo_new(title, t) EXCEPT !.id = l.next_id]]

\* an insertion in front of the tasks already there
add_todo_in_front(l, todo) == [l EXCEPT !.todos = <<todo>> \o l.todos]

add_todo(l, todo) == [l EXCEPT !.todos = Append(l.todos, todo)]

\* position of the first todo with this id, 0 when there is none
position(todos, id) ==
    IF \E i \in 1..Len(todos) : todos[i].id = id
    THEN CHOOSE i \in 1..Len(todos) :
            todos[i].id = id /\ \A j \in 1..(i - 1) : todos[j].id # id
    ELSE 0

remove_at(todos, i) == SubSeq(todos, 1, i - 1) \o SubSeq(todos, i + 1, Len(todos))

\* a removal that also drops every task after the one found
delete_todo_drop_rest(l, id) ==
    LET pos == position(l.todos, id) IN
    IF pos # 0
    THEN [ok |-> TRUE, list |-> [l EXCEPT !.todos = SubSeq(l.todos, 1, pos - 1)]]
    ELSE [ok |-> FALSE, list |-> l]

delete_todo(l, id) ==
    LET pos == position(l.todos, id) IN
    IF pos # 0
    THEN [ok |-> TRUE, list |-> [l EXCEPT !.todos = remove_at(l.todos, pos)]]
    ELSE [ok |-> FALSE, list |-> l]

\* a retain that also drops the tasks with no category
delete_by_category_unset_too(l, category) ==
    LET kept == SelectSeq(l.todos,
                    LAMBDA todo : IsSome(todo.category) /\ Unwrap(todo.category) # category)
    IN  [list |-> [l EXCEPT !.todos = kept], count |-> Len(l.todos) - Len(kept)]

delete_by_category(l, category) ==
    LET kept == SelectSeq(l.todos,
                    LAMBDA todo : ~IsSome(todo.category) \/ Unwrap(todo.category) # category)
    IN  [list |-> [l EXCEPT !.todos = kept], count |-> Len(l.todos) - Len(kept)]

\* a removal that takes a status it cannot parse for Todo
delete_by_status_default(l, status_str) ==
    LET status == IF parse_status(status_str).ok THEN parse_status(status_str)
                  ELSE Ok(Status_default) IN
    LET kept == SelectSeq(l.todos, LAMBDA todo : todo.status # status.val)
    IN  [ok |-> TRUE, list |-> [l EXCEPT !.todos = kept],
         count |-> Len(l.todos) - Len(kept)]

delete_by_status(l, status_str) ==
    LET status == parse_status(status_str) IN
    IF ~status.ok THEN [ok |-> FALSE, list |-> l, count |-> 0]
    ELSE LET kept == SelectSeq(l.todos, LAMBDA todo : todo.status # status.val)
         IN  [ok |-> TRUE, list |-> [l EXCEPT !.todos = kept],
              count |-> Len(l.todos) - Len(kept)]

\* a rule that stamps every change to Done, whatever the old status
finished_date_rule_any_done(old_status, new_status, finished_date, t) ==
    IF new_status = "Done" THEN Some(t)
    ELSE IF new_status \in {"Todo", "InProgress"} /\ old_status = "Done" THEN None
    ELSE finished_date

\* a rule that also clears finished_date when a Done task is archived
finished_date_rule_clear_archived(old_status, new_status, finished_date, t) ==
    IF new_status = "Done" /\ old_status \in {"Todo", "InProgress"} THEN Some(t)
    ELSE IF old_status = "Done" /\ new_status # "Done" THEN None
    ELSE finished_date

\* the finished_date rule of update_todo for a status change old -> new
finished_date_rule(old_status, new_status, finished_date, t) ==
    IF new_status = "Done" /\ old_status \in {"Todo", "InProgress"}
    THEN Some(t)
    ELSE IF new_status \in {"Todo", "InProgress"} /\ old_status = "Done"
    THEN None
    ELSE finished_date

\* an optional string argument of update_todo: "" clears the field
set_or_clear(arg, field) ==
    IF IsSome(arg)
    THEN (IF Unwrap(arg) = <<>> THEN None ELSE Some(Unwrap(arg)))
    ELSE field

\* update_todo on the todo it found; assignments made before an error stay
update_found(todo, status, priority, tags, category, project, notes, t) ==
    LET st == IF IsSome(status) THEN parse_status(Unwrap(status)) ELSE Err
        pr == IF IsSome(priority) THEN parse_priority(Unwrap(priority)) ELSE Err
        t1 == IF IsSome(status) /\ st.ok
              THEN [todo EXCEPT
                      !.status = st.val,
                      !.finished_date =
                          finished_date_rule(todo.status, st.val, todo.finished_date, t)]
              ELSE todo
        t2 == IF IsSome(priority) /\ pr.ok THEN [t1 EXCEPT !.priority = pr.val] ELSE t1
        t3 == [t2 EXCEPT
                 !.tags = IF IsSome(tags) THEN update_tags(t2.tags, Unwrap(tags)) ELSE @,
                 !.category = set_or_clear(category, @),
                 !.project = set_or_clear(project, @),
                 !.notes = set_or_clear(notes, @)]
    IN  IF IsSome(status) /\ ~st.ok THEN [ok |-> FALSE, todo |-> todo]
        ELSE IF IsSome(priority) /\ ~pr.ok THEN [ok |-> FALSE, todo |-> t1]
        ELSE [ok |-> TRUE, todo |-> t3]

update_todo(l, id, status, priority, tags, category, project, notes, t) ==
    LET pos == position(l.todos, id) IN
    IF pos = 0 THEN [ok |-> FALSE, list |-> l]
    ELSE LET r == update_found(l.todos[pos], status, priority, tags,
                               category, project, notes, t)
         IN  [ok |-> r.ok, list |-> [l EXCEPT !.todos[pos] = r.todo]]

(***************************************************************************)
(* Storage (core/storage.rs).  The backing file is missing, empty, or      *)
(* holds a serialized TodoList; io is what the file system does to this    *)
(* operation: "ok", "load_err" (the read or the parse fails) or "save_err" *)
(* (every write fails).                                                    *)
(***************************************************************************)
FileMissing == [state |-> "missing", data |-> TodoList_default]
FileEmpty == [state |-> "empty", data |-> TodoList_default]
FileOf(l) == [state |-> "data", data |-> l]

\* a save that creates the file and never replaces an existing one
save_todos_create_new(f, l, io) ==
    IF io = "save_err" \/ f.state = "data" THEN [ok |-> FALSE, file |-> f]
    ELSE [ok |-> TRUE, file |-> FileOf(l)]

save_todos(f, l, io) ==
    IF io = "save_err" THEN [ok |-> FALSE, file |-> f]
    ELSE [ok |-> TRUE, file |-> FileOf(l)]

\* a load that writes the empty collection out for an empty file as well
load_todos_writing_empty(f, io) ==
    IF f.state \in {"missing", "empty"}
    THEN LET w == save_todos(f, TodoList_default, io) IN
         [ok |-> w.ok, list |-> TodoList_default, file |-> w.file]
    ELSE IF io = "load_err" THEN [ok |-> FALSE, list |-> TodoList_default, file |-> f]
    ELSE [ok |-> TRUE, list |-> f.data, file |-> f]

load_todos(f, io) ==
    IF f.state = "missing"
    THEN LET w == save_todos(f, TodoList_default, io) IN
         [ok |-> w.ok, list |-> TodoList_default, file |-> w.file]
    ELSE IF io = "load_err" THEN [ok |-> FALSE, list |-> TodoList_default, file |-> f]
    ELSE IF f.state = "empty" THEN [ok |-> TRUE, list |-> TodoList_default, file |-> f]
    ELSE [ok |-> TRUE, list |-> f.data, file |-> f]

\* The file on disk: whether the path exists, its text when the text is not
\* the serialization of a collection, and what serde_yaml::from_str makes of
\* it (None when it does not parse).
DiskAbsent == [exists |-> FALSE, content |-> <<>>, yaml |-> None]
DiskText(text) == [exists |-> TRUE, content |-> text, yaml |-> None]
DiskYaml(l) == [exists |-> TRUE, content |-> <<"y">>, yaml |-> Some(l)]

\* the backing file as load_todos tells the cases apart
file_of_disk(d) ==
    IF ~d.exists THEN FileMissing
    ELSE IF trim(d.content) = <<>> THEN FileEmpty
    ELSE IF IsSome(d.yaml) THEN FileOf(Unwrap(d.yaml))
    ELSE FileOf(TodoList_default)

\* load_todos on the file on disk; text that does not parse is a load error
load_todos_from_disk(d, io) ==
    IF d.exists /\ trim(d.content) # <<>> /\ ~IsSome(d.yaml)
    THEN [ok |-> FALSE, list |-> TodoList_default, file |-> file_of_disk(d),
          written |-> FALSE]
    ELSE With(load_todos(file_of_disk(d), io), LAMBDA r :
            [ok |-> r.ok, list |-> r.list, file |-> r.file,
             written |-> r.file # file_of_disk(d)])

\* the collection a reader of the file sees
Stored(f) == IF f.state = "data" THEN f.data ELSE TodoList_default

(***************************************************************************)
(* CLI operations (cli/commands.rs): load, mutate, save.                   *)
(***************************************************************************)
quick_add_todo(f, title, t, io) ==
    IF title = <<>> THEN [ok |-> FALSE, file |-> f]
    ELSE LET ld == load_todos(f, io) IN
         IF ~ld.ok THEN [ok |-> FALSE, file |-> ld.file]
         ELSE LET c == create_todo(ld.list, title, t) IN
              save_todos(ld.file, add_todo(c.list, c.todo), io)

cmd_update_todo(f, id, status, priority, tags, category, project, notes, t, io) ==
    LET ld == load_todos(f, io) IN
    IF ~ld.ok THEN [ok |-> FALSE, file |-> ld.file]
    ELSE LET u == update_todo(ld.list, id, status, priority, tags,
                              category, project, notes, t)
         IN  IF ~u.ok THEN [ok |-> FALSE, file |-> ld.file]
             ELSE save_todos(ld.file, u.list, io)

(***************************************************************************)
(* Form data (tui/forms/todo_form.rs).  fields holds the content of the    *)
(* seven widgets: the text of the inputs and the value each select shows.  *)
(***************************************************************************)
EmptyFields ==
    [title |-> <<>>, priority |-> "P2", status |-> "Todo", category |-> <<>>,
     project |-> <<>>, tags |-> <<>>, notes |-> <<>>]

load_from_todo(todo) ==
    [title |-> todo.title,
     priority |-> todo.priority,
     status |-> todo.status,
     category |-> IF IsSome(todo.category) THEN Unwrap(todo.category) ELSE <<>>,
     project |-> IF IsSome(todo.project) THEN Unwrap(todo.project) ELSE <<>>,
     tags |-> IF todo.tags # <<>> THEN join(todo.tags, ",") ELSE <<>>,
     notes |-> IF IsSome(todo.notes) THEN Unwrap(todo.notes) ELSE <<>>]

\* TodoFormData::from_fields: [ok, val] with val the validated form data
from_fields(fields) ==
    LET title == trim(fields.title)
        cat == trim(fields.category)
        proj == trim(fields.project)
        tags == IF trim(fields.tags) = <<>> THEN Ok(<<>>)
                ELSE validate_and_normalize_tags(fields.tags)
        notes_text == trim(fields.notes)
    IN  IF ~validate_title(title) THEN Err
        ELSE IF cat # <<>> /\ ~validate_category(cat) THEN Err
        ELSE IF proj # <<>> /\ ~validate_project(proj) THEN Err
        ELSE IF ~tags.ok THEN Err
        ELSE IF notes_text # <<>> /\ ~validate_notes(notes_text) THEN Err
        ELSE Ok([title |-> title,
                 priority |-> fields.priority,
                 status |-> fields.status,
                 category |-> IF cat = <<>> THEN None ELSE Some(cat),
                 project |-> IF proj = <<>> THEN None ELSE Some(proj),
                 tags |-> tags.val,
                 notes |-> IF notes_text = <<>> THEN None ELSE Some(notes_text)])

\* the body of TodoCreator::save_todo's thread: d is the validated form data
creator_store(f, d, t, io) ==
    LET ld == load_todos(f, io) IN
    IF ~ld.ok THEN [ok |-> FALSE, file |-> ld.file]
    ELSE LET c == create_todo(ld.list, d.title, t)
             todo == [c.todo EXCEPT !.priority = d.priority,
                                    !.status = d.status,
                                    !.category = d.category,
                                    !.project = d.project,
                                    !.tags = d.tags,
                                    !.notes = d.notes]
         IN  save_todos(ld.file, add_todo(c.list, todo), io)

\* TodoCreator::save_todo (tui/add_todo.rs)
creator_save_todo(f, fields, t, io) ==
    With(from_fields(fields),
         LAMBDA fd : IF ~fd.ok THEN [ok |-> FALSE, file |-> f]
                     ELSE creator_store(f, fd.val, t, io))

\* the title assignment that follows update_todo in TodoEditor::save_todo
set_title(l, todo_id, title) ==
    LET pos == position(l.todos, todo_id) IN
    IF pos = 0 THEN l ELSE [l EXCEPT !.todos[pos].title = title]

\* the tags argument TodoEditor::save_todo passes to update_todo
tags_string(tags) == IF tags = <<>> THEN None ELSE Some(join(tags, ","))

\* update_todo's result saved, or its error returned
editor_finish(f, u, todo_id, title, io) ==
    IF ~u.ok THEN [ok |-> FALSE, file |-> f]
    ELSE save_todos(f, set_title(u.list, todo_id, title), io)

\* what TodoEditor::save_todo does with the collection it loaded
editor_update(f, l, todo_id, d, t, io) ==
    editor_finish(f,
                  update_todo(l, todo_id, Some(Status_debug(d.status)),
                              Some(Priority_debug(d.priority)), tags_string(d.tags),
                              d.category, d.project, d.notes, t),
                  todo_id, d.title, io)

\* the body of TodoEditor::save_todo's thread: d is the validated form data
editor_store(f, todo_id, d, t, io) ==
    LET ld == load_todos(f, io) IN
    IF ~ld.ok THEN [ok |-> FALSE, file |-> ld.file]
    ELSE editor_update(ld.file, ld.list, todo_id, d, t, io)

\* TodoEditor::save_todo (tui/edit_todo.rs)
editor_save_todo(f, todo_id, fields, t, io) ==
    With(from_fields(fields),
         LAMBDA fd : IF ~fd.ok THEN [ok |-> FALSE, file |-> f]
                     ELSE editor_store(f, todo_id, fd.val, t, io))

(***************************************************************************)
(* Interactive actions (tui/search.rs): each loads, changes the todo with  *)
(* the given id if there is one, and saves.                                *)
(***************************************************************************)
\* a raise that wraps from the highest priority to the lowest
increase_priority_wrapping(p) ==
    CASE p = "P5" -> "P4" [] p = "P4" -> "P3" [] p = "P3" -> "P2"
      [] p = "P2" -> "P1" [] p = "P1" -> "P0" [] p = "P0" -> "P5"

increase_priority(p) ==
    CASE p = "P5" -> "P4" [] p = "P4" -> "P3" [] p = "P3" -> "P2"
      [] p = "P2" -> "P1" [] p = "P1" -> "P0" [] p = "P0" -> "P0"

decrease_priority(p) ==
    CASE p = "P0" -> "P1" [] p = "P1" -> "P2" [] p = "P2" -> "P3"
      [] p = "P3" -> "P4" [] p = "P4" -> "P5" [] p = "P5" -> "P5"

\* the shape the three actions share: found is TRUE when a todo had the id
act_on_todo(f, todo_id, change(_), io) ==
    LET ld == load_todos(f, io) IN
    IF ~ld.ok THEN [ok |-> FALSE, found |-> FALSE, file |-> ld.file]
    ELSE LET pos == position(ld.list.todos, todo_id) IN
         IF pos = 0 THEN [ok |-> TRUE, found |-> FALSE, file |-> ld.file]
         ELSE LET w == save_todos(ld.file,
                           [ld.list EXCEPT !.todos[pos] = change(@)], io)
              IN  [ok |-> w.ok, found |-> TRUE, file |-> w.file]

change_todo_priority(f, todo_id, increase, io) ==
    LET change(todo) ==
            [todo EXCEPT !.priority = IF increase THEN increase_priority(@)
                                      ELSE decrease_priority(@)]
    IN  act_on_todo(f, todo_id, change, io)

archive_todo(f, todo_id, io) ==
    LET change(todo) == [todo EXCEPT !.status = "Archived"]
    IN  act_on_todo(f, todo_id, change, io)

mark_todo_done(f, todo_id, t, io) ==
    LET change(todo) ==
            [todo EXCEPT !.status = "Done",
                         !.finished_date = IF ~IsSome(@) THEN Some(t) ELSE @]
    IN  act_on_todo(f, todo_id, change, io)

(***************************************************************************)
(* The interactive search (tui/search.rs).  handle_event turns a key into  *)
(* an integer signal; run_search_todo decodes the signal and acts on it.   *)
(***************************************************************************)
DoneVisibleSeconds == 3
SignalExit == 0
SignalAdd == 5000
PriorityUpBase == 1000
PriorityDownBase == 2000
ArchiveBase == 3000
DoneBase == 4000

Digits == {"0", "1", "2", "3", "4", "5", "6", "7", "8", "9"}

\* str::contains with a string pattern
str_contains(s, sub) ==
    \E i \in 0..(Len(s) - Len(sub)) : SubSeq(s, i + 1, i + Len(sub)) = sub

opt_contains(o, sub) == IsSome(o) /\ str_contains(to_lowercase(Unwrap(o)), sub)

any_tag_contains(tags, sub) ==
    \E i \in 1..Len(tags) : str_contains(to_lowercase(tags[i]), sub)

\* clock readings are counted in ticks, TicksPerSecond of them to a second
TicksPerSecond == 2

\* Duration::num_seconds: the whole seconds of a duration, rounded towards zero
num_seconds(d) ==
    IF d >= 0 THEN d \div TicksPerSecond ELSE -((-d) \div TicksPerSecond)

should_include_todo(todo, t) ==
    IF todo.status = "Archived" THEN FALSE
    ELSE IF todo.status = "Done" /\ IsSome(todo.finished_date)
              /\ num_seconds(t - Unwrap(todo.finished_date)) > DoneVisibleSeconds
         THEN FALSE
    ELSE TRUE

fuzzy_match(todo, query) ==
    \/ str_contains(to_lowercase(todo.title), query)
    \/ opt_contains(todo.notes, query)
    \/ any_tag_contains(todo.tags, query)
    \/ opt_contains(todo.category, query)
    \/ opt_contains(todo.project, query)

\* the closure of filter_todos for a non-empty (lowercased) query
matches_query(todo, query) ==
    IF starts_with(query, "#") THEN any_tag_contains(todo.tags, Tail(query))
    ELSE IF starts_with(query, "@") THEN opt_contains(todo.category, Tail(query))
    ELSE IF starts_with(query, "!")
        THEN str_contains(to_lowercase(Status_debug(todo.status)), Tail(query))
    ELSE IF starts_with(query, "p") /\ Len(query) = 2 /\ query[2] \in Digits
        THEN to_lowercase(Priority_debug(todo.priority)) = query
    ELSE fuzzy_match(todo, query)

\* a filter that leaves the selection index where it was
filter_todos_keeping_selection(s, t) ==
    LET query == to_lowercase(s.query)
        keep(todo) == /\ should_include_todo(todo, t)
                      /\ (query = <<>> \/ matches_query(todo, query))
    IN  [s EXCEPT !.filtered_todos = SelectSeq(s.all_todos, keep)]

filter_todos(s, t) ==
    LET query == to_lowercase(s.query)
        keep(todo) == /\ should_include_todo(todo, t)
                      /\ (query = <<>> \/ matches_query(todo, query))
    IN  [s EXCEPT !.filtered_todos = SelectSeq(s.all_todos, keep),
                  !.selected_index = 0]

get_selected_todo(s) ==
    IF s.selected_index < Len(s.filtered_todos)
    THEN Some(s.filtered_todos[s.selected_index + 1]) ELSE None

\* TodoSearcher::new(None)
TodoSearcher_new(f, t) ==
    LET ld == load_todos(f, "ok")
        shown(todo) == should_include_todo(todo, t)
    IN  [file |-> ld.file,
         s |-> [all_todos |-> ld.list.todos,
                filtered_todos |-> SelectSeq(ld.list.todos, shown),
                selected_index |-> 0, focus_on_search |-> TRUE, query |-> <<>>,
                show_help |-> FALSE, should_quit |-> FALSE]]

NoSignal(s) == [s |-> s, sig |-> None]
Signal(s, n) == [s |-> s, sig |-> Some(n)]

focus_results(s) ==
    IF s.filtered_todos # <<>>
    THEN [s EXCEPT !.focus_on_search = FALSE, !.selected_index = 0] ELSE s

\* Input::handle_event of the search field, cursor at the end of the text
search_input_event(s, key, t) ==
    IF key = "Backspace"
    THEN filter_todos([s EXCEPT !.query = IF @ = <<>> THEN @
                                          ELSE SubSeq(@, 1, Len(@) - 1)], t)
    ELSE IF Len(key) = 1 THEN filter_todos([s EXCEPT !.query = Append(@, key)], t)
    ELSE s

selected_signal(s, base) ==
    LET sel == get_selected_todo(s) IN
    IF IsSome(sel) THEN Signal(s, base + Unwrap(sel).id) ELSE NoSignal(s)

\* a results list whose Down does not stop at the last task
results_event_down_past_end(s, key) ==
    CASE key = "Up" ->
            NoSignal(IF s.selected_index = 0 THEN [s EXCEPT !.focus_on_search = TRUE]
                     ELSE IF s.filtered_todos # <<>>
                          THEN [s EXCEPT !.selected_index = @ - 1] ELSE s)
      [] key = "Down" ->
            NoSignal(IF s.filtered_todos # <<>>
                     THEN [s EXCEPT !.selected_index = @ + 1] ELSE s)
      [] key = "Enter" -> selected_signal(s, 0)
      [] key \in {"=", "+"} -> selected_signal(s, PriorityUpBase)
      [] key = "-" -> selected_signal(s, PriorityDownBase)
      [] key = "CtrlR" -> selected_signal(s, ArchiveBase)
      [] key = "CtrlD" -> selected_signal(s, DoneBase)
      [] OTHER -> NoSignal(s)

results_event(s, key) ==
    CASE key = "Up" ->
            NoSignal(IF s.selected_index = 0 THEN [s EXCEPT !.focus_on_search = TRUE]
                     ELSE IF s.filtered_todos # <<>>
                          THEN [s EXCEPT !.selected_index = @ - 1] ELSE s)
      [] key = "Down" ->
            NoSignal(IF s.filtered_todos # <<>>
                        /\ s.selected_index < Len(s.filtered_todos) - 1
                     THEN [s EXCEPT !.selected_index = @ + 1] ELSE s)
      [] key = "Enter" -> selected_signal(s, 0)
      [] key \in {"=", "+"} -> selected_signal(s, PriorityUpBase)
      [] key = "-" -> selected_signal(s, PriorityDownBase)
      [] key = "CtrlR" -> selected_signal(s, ArchiveBase)
      [] key = "CtrlD" -> selected_signal(s, DoneBase)
      [] OTHER -> NoSignal(s)

\* a handler whose Esc only leaves the results list
handle_event_esc_leaves_list(s, key, t) ==
    CASE key = "CtrlX" -> Signal(s, SignalExit)
      [] key = "Esc" -> IF s.focus_on_search THEN Signal(s, SignalExit)
                        ELSE NoSignal([s EXCEPT !.focus_on_search = TRUE])
      [] key = "CtrlA" -> Signal(s, SignalAdd)
      [] key = "F1" -> NoSignal([s EXCEPT !.show_help = ~@])
      [] key = "/" -> NoSignal([s EXCEPT !.focus_on_search = TRUE])
      [] OTHER ->
            IF s.focus_on_search
            THEN IF key \in {"Down", "Enter"} THEN NoSignal(focus_results(s))
                 ELSE NoSignal(search_input_event(s, key, t))
            ELSE results_event(s, key)

\* a handler whose action keys signal in either focus
handle_event_actions_in_any_focus(s, key, t) ==
    CASE key \in {"CtrlX", "Esc"} -> Signal(s, SignalExit)
      [] key = "CtrlA" -> Signal(s, SignalAdd)
      [] key = "F1" -> NoSignal([s EXCEPT !.show_help = ~@])
      [] key = "/" -> NoSignal([s EXCEPT !.focus_on_search = TRUE])
      [] OTHER ->
            IF s.focus_on_search /\ key \notin {"=", "+", "-", "CtrlR", "CtrlD"}
            THEN IF key \in {"Down", "Enter"} THEN NoSignal(focus_results(s))
                 ELSE NoSignal(search_input_event(s, key, t))
            ELSE results_event(s, key)

handle_event(s, key, t) ==
    CASE key \in {"CtrlX", "Esc"} -> Signal(s, SignalExit)
      [] key = "CtrlA" -> Signal(s, SignalAdd)
      [] key = "F1" -> NoSignal([s EXCEPT !.show_help = ~@])
      [] key = "/" -> NoSignal([s EXCEPT !.focus_on_search = TRUE])
      [] OTHER ->
            IF s.focus_on_search
            THEN IF key \in {"Down", "Enter"} THEN NoSignal(focus_results(s))
                 ELSE NoSignal(search_input_event(s, key, t))
            ELSE results_event(s, key)

reload_todos(s, f, t, io) ==
    With(load_todos(f, io), LAMBDA ld :
        IF ~ld.ok THEN [ok |-> FALSE, file |-> ld.file, s |-> s]
        ELSE [ok |-> TRUE, file |-> ld.file,
              s |-> filter_todos([s EXCEPT !.all_todos = ld.list.todos], t)])

\* a reload that leaves the selection where filter_todos put it
reload_todos_forgetting_selection(s, f, preserve_todo_id, t, io) ==
    With(reload_todos(s, f, t, io), LAMBDA r : r)

reload_todos_preserving_selection(s, f, preserve_todo_id, t, io) ==
    With(reload_todos(s, f, t, io), LAMBDA r :
        LET pos == position(r.s.filtered_todos, preserve_todo_id)
        IN  IF ~r.ok \/ pos = 0 THEN r ELSE [r EXCEPT !.s.selected_index = pos - 1])

\* what a decoded signal did: the action, the id it was aimed at, the outcome.
\* An error is either caught and printed on stderr or, where the arm applies
\* `?` to it, propagated out of run_search_todo.
Done_(action, target, r0, propagates) ==
    With(r0, LAMBDA r :
        [action |-> action, target |-> target, file |-> r.file, s |-> r.s,
         stderr |-> ~r.ok /\ ~propagates, failed |-> ~r.ok /\ propagates])

\* run_edit_todo(id) with the form left by Esc at once; the constructor fails
\* when no task has the id
run_edit_todo(f, id, t) ==
    LET ld == load_todos(f, "ok")
        pos == position(ld.list.todos, id)
    IN  IF pos = 0 THEN ld.file
        ELSE editor_save_todo(ld.file, id, load_from_todo(ld.list.todos[pos]),
                              t, "ok").file

\* run_add_todo(None) with the form left by Esc at once
run_add_todo(f, t) == creator_save_todo(f, EmptyFields, t, "ok").file

after_change(s, c0, id, t, preserve, io) ==
    With(c0, LAMBDA c :
        IF ~(c.ok /\ c.found) THEN [ok |-> c.ok, file |-> c.file, s |-> s]
        ELSE IF preserve THEN reload_todos_preserving_selection(s, c.file, id, t, io)
        ELSE reload_todos(s, c.file, t, io))

\* one arm of the match in run_search_todo
decode_signal(f, s, n, t, io) ==
    IF n = SignalExit
        THEN Done_("exit", 0, [ok |-> TRUE, file |-> f,
                               s |-> [s EXCEPT !.should_quit = TRUE]], FALSE)
    ELSE IF n = SignalAdd
        THEN Done_("add", 0, reload_todos(s, run_add_todo(f, t), t, io), TRUE)
    ELSE IF n >= DoneBase
        THEN Done_("done", n - DoneBase,
                   after_change(s, mark_todo_done(f, n - DoneBase, t, io),
                                n - DoneBase, t, TRUE, io), FALSE)
    ELSE IF n >= ArchiveBase
        THEN Done_("archive", n - ArchiveBase,
                   after_change(s, archive_todo(f, n - ArchiveBase, io),
                                n - ArchiveBase, t, FALSE, io), FALSE)
    ELSE IF n >= PriorityDownBase
        THEN Done_("decrease", n - PriorityDownBase,
                   after_change(s, change_todo_priority(f, n - PriorityDownBase,
                                                        FALSE, io),
                                n - PriorityDownBase, t, TRUE, io), FALSE)
    ELSE IF n >= PriorityUpBase
        THEN Done_("increase", n - PriorityUpBase,
                   after_change(s, change_todo_priority(f, n - PriorityUpBase,
                                                        TRUE, io),
                                n - PriorityUpBase, t, TRUE, io), FALSE)
    ELSE Done_("edit", n, reload_todos(s, run_edit_todo(f, n, t), t, io), TRUE)

\* one turn of the loop in run_search_todo: read a key, handle it, act
\* a turn whose action changes and saves the collection the view holds
run_search_step_on_view(f, s, key, t, io) ==
    With(handle_event(s, key, t), LAMBDA h :
        IF IsSome(h.sig)
        THEN decode_signal([f EXCEPT !.data.todos = s.all_todos], h.s,
                           Unwrap(h.sig), t, io)
        ELSE Done_("none", 0, [ok |-> TRUE, file |-> f, s |-> h.s], FALSE))

run_search_step(f, s, key, t, io) ==
    With(handle_event(s, key, t), LAMBDA h :
        IF IsSome(h.sig) THEN decode_signal(f, h.s, Unwrap(h.sig), t, io)
        ELSE Done_("none", 0, [ok |-> TRUE, file |-> f, s |-> h.s], FALSE))

(***************************************************************************)
(* The add form and the edit form (tui/add_todo.rs, tui/edit_todo.rs).     *)
(* A key goes to the Enter-in-title rule, then to the field manager, then  *)
(* to the focused widget, and only then to the form's own shortcuts.       *)
(***************************************************************************)
FieldCount == 7

focus_next_field(i) == (i + 1) % FieldCount
\* a step back that stops at the first field
focus_previous_field_clamped(i) == IF i = 0 THEN 0 ELSE i - 1

focus_previous_field(i) == IF i = 0 THEN FieldCount - 1 ELSE i - 1

\* TodoFormFields::set_field_focus: the focus flags of the seven widgets
set_field_focus(field_index) == [k \in 0..(FieldCount - 1) |-> k = field_index]

\* handle_navigation_event followed by update_focus
navigate(fm, field_index) ==
    [fm EXCEPT !.focused_field = field_index,
               !.widget_focused = set_field_focus(field_index)]

PriorityOptions == <<"P0", "P1", "P2", "P3", "P4", "P5">>
StatusOptions == <<"Todo", "InProgress", "Done", "Archived">>

IndexOf(options, v) == CHOOSE i \in 1..Len(options) : options[i] = v

\* Select::handle_event: [handled, val]
select_event(options, v, key) ==
    CASE key = "Up" ->
            [handled |-> TRUE,
             val |-> IF IndexOf(options, v) > 1 THEN options[IndexOf(options, v) - 1]
                     ELSE v]
      [] key = "Down" ->
            [handled |-> TRUE,
             val |-> IF IndexOf(options, v) < Len(options)
                     THEN options[IndexOf(options, v) + 1] ELSE v]
      [] OTHER -> [handled |-> FALSE, val |-> v]

\* the keys that are a character typed without Ctrl
IsChar(key) == key \in {"a", "b", ",", " "}

\* the Input that also takes Esc, emptying its text
input_event_esc_clears(text, key) ==
    CASE IsChar(key) -> [handled |-> TRUE, val |-> Append(text, key)]
      [] key = "Backspace" ->
            [handled |-> TRUE,
             val |-> IF text = <<>> THEN text ELSE SubSeq(text, 1, Len(text) - 1)]
      [] key = "Esc" -> [handled |-> TRUE, val |-> <<>>]
      [] OTHER -> [handled |-> FALSE, val |-> text]

\* Input::handle_event with the cursor at the end of the text: [handled, val]
input_event(text, key) ==
    CASE IsChar(key) -> [handled |-> TRUE, val |-> Append(text, key)]
      [] key = "Backspace" ->
            [handled |-> TRUE,
             val |-> IF text = <<>> THEN text ELSE SubSeq(text, 1, Len(text) - 1)]
      [] OTHER -> [handled |-> FALSE, val |-> text]

\* TextArea::handle_event with the cursor at the end of the text
textarea_event(text, key) ==
    IF key = "Enter" THEN [handled |-> TRUE, val |-> Append(text, "\n")]
    ELSE input_event(text, key)

\* TodoFormFields::handle_field_event: [handled, fields]
field_result(fields, name, r) ==
    [handled |-> r.handled, fields |-> [fields EXCEPT ![name] = r.val]]

handle_field_event(fields, field_index, key) ==
    CASE field_index = 0 -> field_result(fields, "title", input_event(fields.title, key))
      [] field_index = 1 ->
            field_result(fields, "priority",
                         select_event(PriorityOptions, fields.priority, key))
      [] field_index = 2 ->
            field_result(fields, "status",
                         select_event(StatusOptions, fields.status, key))
      [] field_index = 3 ->
            field_result(fields, "category", input_event(fields.category, key))
      [] field_index = 4 ->
            field_result(fields, "project", input_event(fields.project, key))
      [] field_index = 5 -> field_result(fields, "tags", input_event(fields.tags, key))
      [] field_index = 6 ->
            field_result(fields, "notes", textarea_event(fields.notes, key))

\* save_todo of the form at hand
form_save_todo(fm, f, t, io) ==
    IF fm.kind = "add" THEN creator_save_todo(f, fm.fields, t, io)
    ELSE editor_save_todo(f, fm.todo_id, fm.fields, t, io)

\* the explicit save that leaves the form whatever save_todo returned
explicit_save_quits_always(saved) == TRUE

\* Enter in the title field and Ctrl-S: quit only when save_todo returned Ok
explicit_save_quits(saved) == saved

\* Esc and Ctrl-X: the error is written to stderr and the form quits
auto_save_quits(saved) == TRUE

\* what one event did: the form after it, the file, and save_todo's outcome
Handled(fm, f) == [form |-> fm, file |-> f, attempted |-> FALSE, saved |-> FALSE]

Saved(fm, w, quits) ==
    [form |-> [fm EXCEPT !.open = ~quits], file |-> w.file, attempted |-> TRUE,
     saved |-> w.ok]

explicit_save(fm, w0) ==
    With(w0, LAMBDA w : Saved(fm, w, explicit_save_quits(w.ok)))

auto_save(fm, w0) ==
    With(w0, LAMBDA w : Saved(fm, w, auto_save_quits(w.ok)))

\* the match on the form's own shortcuts, reached when no widget took the key
global_command(fm, f, key, t, io) ==
    CASE key \in {"CtrlX", "Esc"} -> auto_save(fm, form_save_todo(fm, f, t, io))
      [] key = "CtrlS" -> explicit_save(fm, form_save_todo(fm, f, t, io))
      [] key = "CtrlR" /\ fm.kind = "edit" ->
            Handled([fm EXCEPT !.fields.status = "Archived"], f)
      [] OTHER -> Handled(fm, f)

field_or_global(fm, f, key, t, io, h) ==
    IF h.handled THEN Handled([fm EXCEPT !.fields = h.fields], f)
    ELSE global_command(fm, f, key, t, io)

\* TodoCreator::handle_event and TodoEditor::handle_event
form_handle_event(fm, f, key, t, io) ==
    IF key = "Enter" /\ fm.focused_field = 0
        THEN explicit_save(fm, form_save_todo(fm, f, t, io))
    ELSE IF key = "Tab"
        THEN Handled(navigate(fm, focus_next_field(fm.focused_field)), f)
    ELSE IF key = "BackTab"
        THEN Handled(navigate(fm, focus_previous_field(fm.focused_field)), f)
    ELSE With(handle_field_event(fm.fields, fm.focused_field, key),
              LAMBDA h : field_or_global(fm, f, key, t, io, h))

\* TodoCreator::new(title)
TodoCreator_new(title) ==
    [kind |-> "add", todo_id |-> 0, focused_field |-> 0, open |-> TRUE,
     widget_focused |-> set_field_focus(0),
     fields |-> IF IsSome(title) THEN [EmptyFields EXCEPT !.title = Unwrap(title)]
                ELSE EmptyFields]

\* TodoEditor::new(todo_id) when the stored collection holds the task
TodoEditor_new(f, todo_id) ==
    [kind |-> "edit", todo_id |-> todo_id, focused_field |-> 0, open |-> TRUE,
     widget_focused |-> set_field_focus(0),
     fields |-> load_from_todo(
                    load_todos(f, "ok").list.todos[
                        position(load_todos(f, "ok").list.todos, todo_id)])]

(***************************************************************************)
(* TodoList::filter_todos (core/storage.rs): the listing filter of the     *)
(* command line.                                                           *)
(***************************************************************************)
\* the closure's body with the archived exclusion left out
TodoList_filter_keeps_archived(todo, status, category, priority, tags, all) ==
    IF IsSome(status) /\ parse_status(Unwrap(status)).ok
          /\ todo.status # parse_status(Unwrap(status)).val THEN FALSE
    ELSE IF IsSome(category) /\ todo.category # Some(Unwrap(category)) THEN FALSE
    ELSE IF IsSome(priority) /\ parse_priority(Unwrap(priority)).ok
          /\ todo.priority # parse_priority(Unwrap(priority)).val THEN FALSE
    ELSE IF IsSome(tags)
          /\ \E k \in 1..Len(split(Unwrap(tags), ",")) :
                ~contains(todo.tags, trim(split(Unwrap(tags), ",")[k])) THEN FALSE
    ELSE TRUE

\* the closure's body with a status that does not parse matching no task
TodoList_filter_keeps_strict(todo, status, category, priority, tags, all) ==
    IF ~all /\ todo.status = "Archived" THEN FALSE
    ELSE IF IsSome(status) /\ (~parse_status(Unwrap(status)).ok
          \/ todo.status # parse_status(Unwrap(status)).val) THEN FALSE
    ELSE IF IsSome(category) /\ todo.category # Some(Unwrap(category)) THEN FALSE
    ELSE IF IsSome(priority) /\ parse_priority(Unwrap(priority)).ok
          /\ todo.priority # parse_priority(Unwrap(priority)).val THEN FALSE
    ELSE IF IsSome(tags)
          /\ \E k \in 1..Len(split(Unwrap(tags), ",")) :
                ~contains(todo.tags, trim(split(Unwrap(tags), ",")[k])) THEN FALSE
    ELSE TRUE

\* the closure given to filter: TRUE when the task is kept
TodoList_filter_keeps(todo, status, category, priority, tags, all) ==
    IF ~all /\ todo.status = "Archived" THEN FALSE
    ELSE IF IsSome(status) /\ parse_status(Unwrap(status)).ok
          /\ todo.status # parse_status(Unwrap(status)).val THEN FALSE
    ELSE IF IsSome(category) /\ todo.category # Some(Unwrap(category)) THEN FALSE
    ELSE IF IsSome(priority) /\ parse_priority(Unwrap(priority)).ok
          /\ todo.priority # parse_priority(Unwrap(priority)).val THEN FALSE
    ELSE IF IsSome(tags)
          /\ \E k \in 1..Len(split(Unwrap(tags), ",")) :
                ~contains(todo.tags, trim(split(Unwrap(tags), ",")[k])) THEN FALSE
    ELSE TRUE

TodoList_filter_todos(l, status, category, priority, tags, all) ==
    SelectSeq(l.todos,
              LAMBDA todo : TodoList_filter_keeps(todo, status, category, priority,
                                                  tags, all))

(***************************************************************************)
(* search_todos and filter_by_special_syntax (core/filters.rs).            *)
(***************************************************************************)
\* the closure of search_todos: TRUE when the task matches the lowercased query
search_matches(todo, query_lower) ==
    IF todo.status = "Archived" THEN FALSE
    ELSE IF str_contains(to_lowercase(todo.title), query_lower) THEN TRUE
    ELSE IF opt_contains(todo.notes, query_lower) THEN TRUE
    ELSE IF any_tag_contains(todo.tags, query_lower) THEN TRUE
    ELSE IF opt_contains(todo.category, query_lower) THEN TRUE
    ELSE IF opt_contains(todo.project, query_lower) THEN TRUE
    ELSE FALSE

\* a search that keeps the Archived tasks
search_todos_with_archived(todos, query) ==
    SelectSeq(todos, LAMBDA todo :
        search_matches([todo EXCEPT !.status = "Todo"], to_lowercase(query)))

search_todos(todos, query) ==
    SelectSeq(todos, LAMBDA todo : search_matches(todo, to_lowercase(query)))

parse_status_for_filter(status_str) ==
    CASE status_str = <<"t", "o", "d", "o">> -> Ok("Todo")
      [] status_str = <<"i", "n", "p", "r", "o", "g", "r", "e", "s", "s">> -> Ok("InProgress")
      [] status_str = <<"i", "n", "-", "p", "r", "o", "g", "r", "e", "s", "s">> -> Ok("InProgress")
      [] status_str = <<"i", "n", "_", "p", "r", "o", "g", "r", "e", "s", "s">> -> Ok("InProgress")
      [] status_str = <<"d", "o", "n", "e">> -> Ok("Done")
      [] status_str = <<"a", "r", "c", "h", "i", "v", "e", "d">> -> Ok("Archived")
      [] OTHER -> Err

parse_priority_for_filter(priority_str) ==
    CASE priority_str = <<"p", "0">> -> Ok("P0") [] priority_str = <<"p", "1">> -> Ok("P1")
      [] priority_str = <<"p", "2">> -> Ok("P2") [] priority_str = <<"p", "3">> -> Ok("P3")
      [] priority_str = <<"p", "4">> -> Ok("P4") [] priority_str = <<"p", "5">> -> Ok("P5")
      [] OTHER -> Err

\* a dispatch whose tag branch matches substrings of the tags
filter_by_special_syntax_substring(todos, query) ==
    IF starts_with(query, "#")
    THEN SelectSeq(todos, LAMBDA todo :
            \E i \in 1..Len(todo.tags) :
                str_contains(todo.tags[i], to_lowercase(Tail(query))))
    ELSE IF starts_with(query, "@")
    THEN SelectSeq(todos, LAMBDA todo :
            /\ IsSome(todo.category)
            /\ to_lowercase(Unwrap(todo.category)) = to_lowercase(Tail(query)))
    ELSE IF starts_with(query, "!")
            /\ parse_status_for_filter(to_lowercase(Tail(query))).ok
    THEN SelectSeq(todos, LAMBDA todo :
            todo.status = parse_status_for_filter(to_lowercase(Tail(query))).val)
    ELSE IF starts_with(query, "p") /\ Len(query) = 2
            /\ parse_priority_for_filter(query).ok
    THEN SelectSeq(todos, LAMBDA todo :
            todo.priority = parse_priority_for_filter(query).val)
    ELSE search_todos(todos, query)

filter_by_special_syntax(todos, query) ==
    IF starts_with(query, "#")
    THEN SelectSeq(todos, LAMBDA todo : contains(todo.tags, to_lowercase(Tail(query))))
    ELSE IF starts_with(query, "@")
    THEN SelectSeq(todos, LAMBDA todo :
            /\ IsSome(todo.category)
            /\ to_lowercase(Unwrap(todo.category)) = to_lowercase(Tail(query)))
    ELSE IF starts_with(query, "!")
            /\ parse_status_for_filter(to_lowercase(Tail(query))).ok
    THEN SelectSeq(todos, LAMBDA todo :
            todo.status = parse_status_for_filter(to_lowercase(Tail(query))).val)
    ELSE IF starts_with(query, "p") /\ Len(query) = 2
            /\ parse_priority_for_filter(query).ok
    THEN SelectSeq(todos, LAMBDA todo :
            todo.priority = parse_priority_for_filter(query).val)
    ELSE search_todos(todos, query)

(***************************************************************************)
(* Inputs of the model: the texts the operations are called with.          *)
(***************************************************************************)
s_a == <<"a">>
s_b == <<"b">>
s_work == <<"w">>
s_done == <<"d", "o", "n", "e">>
s_Todo == <<"T", "o", "d", "o">>
s_in_progress == <<"i", "n", "-", "p", "r", "o", "g", "r", "e", "s", "s">>
s_archived == <<"a", "r", "c", "h", "i", "v", "e", "d">>
s_bogus == <<"b", "o", "g", "u", "s">>
s_p0 == <<"p", "0">>

NoLast == [op |-> "init", id |-> 0, ok |-> TRUE]

\* the variables a specification does not use keep these values
IdleList == list = TodoList_default /\ pending = {} /\ issued = <<>>
IdleProc == procs = <<>> /\ saveCount = 0
IdleSearch == search = <<>> /\ req = <<>>
IdleForm == form = <<>> /\ ev = <<>>
IdleFn == fnArg = <<>> /\ fnOut = <<>>
IdleUi == IdleSearch /\ IdleForm /\ IdleFn

(***************************************************************************)
(* SpecList: one in-memory Task Collection under its own operations.       *)
(* add_todo is called, as everywhere in the program, with a todo that      *)
(* create_todo returned.                                                   *)
(***************************************************************************)
ListTitles == {s_a}
ListIds == 0..(MaxCreates + 1)
ListStatusArgs == {None, Some(s_done), Some(s_archived), Some(s_bogus)}
ListCategoryArgs == {None, Some(s_work)}
ListCategories == {s_work, s_a}
ListStatusNames == {s_done, s_Todo, s_bogus}

InitList ==
    /\ list = TodoList_default
    /\ pending = {}
    /\ issued = <<>>
    /\ file = FileMissing
    /\ now = 0
    /\ last = NoLast
    /\ IdleProc
    /\ IdleUi

CreateTodo ==
    \E title \in ListTitles :
        /\ list.next_id <= MaxCreates
        /\ LET r == create_todo(list, title, now) IN
            /\ list' = r.list
            /\ pending' = pending \cup {r.todo}
            /\ issued' = Append(issued, r.todo.id)
        /\ UNCHANGED <<opVars, procVars, uiVars>>

AddTodo ==
    \E todo \in pending :
        /\ list' = add_todo(list, todo)
        /\ pending' = pending \ {todo}
        /\ UNCHANGED <<issued, opVars, procVars, uiVars>>

DeleteTodo ==
    \E id \in ListIds :
        /\ list' = delete_todo(list, id).list
        /\ UNCHANGED <<pending, issued, opVars, procVars, uiVars>>

DeleteByCategory ==
    \E category \in ListCategories :
        /\ list' = delete_by_category(list, category).list
        /\ UNCHANGED <<pending, issued, opVars, procVars, uiVars>>

DeleteByStatus ==
    \E status_str \in ListStatusNames :
        /\ list' = delete_by_status(list, status_str).list
        /\ UNCHANGED <<pending, issued, opVars, procVars, uiVars>>

UpdateTodo ==
    \E id \in ListIds, status \in ListStatusArgs, category \in ListCategoryArgs :
        /\ list' = update_todo(list, id, status, None, None, category, None, None, now).list
        /\ UNCHANGED <<pending, issued, opVars, procVars, uiVars>>

NextList ==
    \/ CreateTodo
    \/ AddTodo
    \/ DeleteTodo
    \/ DeleteByCategory
    \/ DeleteByStatus
    \/ UpdateTodo

SpecList == InitList /\ [][NextList]_vars

(***************************************************************************)
(* SpecStatus: the public operations that set a task's status, one after   *)
(* the other on the backing file: quick add, the add form's save, the edit *)
(* form's save, the update command and the interactive done and archive    *)
(* actions.  The interactive actions act on a task of the result list,     *)
(* which never shows an Archived task.                                     *)
(***************************************************************************)
MaxStatusTasks == 1

StatusIds == 0..(MaxStatusTasks + 1)
StatusArgs == {Some(s_done), Some(s_Todo), Some(s_in_progress), Some(s_archived),
               Some(s_bogus)}

InitStatus ==
    /\ file \in {FileMissing, FileEmpty}
    /\ now = 0
    /\ last = NoLast
    /\ IdleList
    /\ IdleProc
    /\ IdleUi

Tick ==
    /\ now < MaxTime
    /\ now' = now + 1
    /\ last' = [NoLast EXCEPT !.op = "tick"]
    /\ UNCHANGED <<file, listVars, procVars, uiVars>>

StatusQuickAdd ==
    /\ Stored(file).next_id <= MaxStatusTasks
    /\ LET r == quick_add_todo(file, s_a, now, "ok") IN
        /\ file' = r.file
        /\ last' = [op |-> "quick_add", id |-> Stored(file).next_id, ok |-> r.ok]
    /\ UNCHANGED <<now, listVars, procVars, uiVars>>

StatusAddSave ==
    \E st \in Status :
        /\ Stored(file).next_id <= MaxStatusTasks
        /\ LET r == creator_save_todo(file, [EmptyFields EXCEPT !.title = s_a, !.status = st],
                                      now, "ok") IN
            /\ file' = r.file
            /\ last' = [op |-> "add_save", id |-> Stored(file).next_id, ok |-> r.ok]
        /\ UNCHANGED <<now, listVars, procVars, uiVars>>

\* the edit form opened on a stored task, its status select moved, then saved
StatusEditSave ==
    \E i \in 1..Len(Stored(file).todos), st \in Status :
        LET todo == Stored(file).todos[i]
            r == editor_save_todo(file, todo.id,
                                  [load_from_todo(todo) EXCEPT !.status = st], now, "ok")
        IN  /\ file' = r.file
            /\ last' = [op |-> "edit_save", id |-> todo.id, ok |-> r.ok]
            /\ UNCHANGED <<now, listVars, procVars, uiVars>>

StatusUpdate ==
    \E id \in StatusIds, status \in StatusArgs :
        LET r == cmd_update_todo(file, id, status, None, None, None, None, None, now, "ok") IN
        /\ file' = r.file
        /\ last' = [op |-> "update_todo", id |-> id, ok |-> r.ok]
        /\ UNCHANGED <<now, listVars, procVars, uiVars>>

StatusMarkDone ==
    \E i \in 1..Len(Stored(file).todos) :
        LET todo == Stored(file).todos[i] IN
        /\ todo.status # "Archived"
        /\ file' = mark_todo_done(file, todo.id, now, "ok").file
        /\ last' = [op |-> "mark_done", id |-> todo.id, ok |-> TRUE]
        /\ UNCHANGED <<now, listVars, procVars, uiVars>>

StatusArchive ==
    \E i \in 1..Len(Stored(file).todos) :
        LET todo == Stored(file).todos[i] IN
        /\ todo.status # "Archived"
        /\ file' = archive_todo(file, todo.id, "ok").file
        /\ last' = [op |-> "archive", id |-> todo.id, ok |-> TRUE]
        /\ UNCHANGED <<now, listVars, procVars, uiVars>>

NextStatus ==
    \/ Tick
    \/ StatusQuickAdd
    \/ StatusAddSave
    \/ StatusEditSave
    \/ StatusUpdate
    \/ StatusMarkDone
    \/ StatusArchive

SpecStatus == InitStatus /\ [][NextStatus]_vars

(***************************************************************************)
(* SpecProc: NumProcs processes on one backing file, each running one CLI  *)
(* command.  A command awaits load_todos, changes the collection it got    *)
(* and awaits save; other processes run between its load and its save.     *)
(***************************************************************************)
Proc == 1..NumProcs
ProcChars == <<"a", "b", "c", "d">>
TitleOf(p) == <<ProcChars[p]>>
s_t == <<"t">>

\* a file written by an earlier quick add of title "t"
FileOneTask == quick_add_todo(FileMissing, s_t, 0, "ok").file

ProcStart(op) ==
    [pc |-> "start", op |-> op, loaded |-> TodoList_default,
     result |-> TodoList_default, new_id |-> 0, loadedAt |-> 0, savedAt |-> 0]

InitProc ==
    /\ file \in {FileMissing, FileEmpty, FileOneTask}
    /\ procs \in [Proc -> {ProcStart("quick_add"), ProcStart("update")}]
    /\ saveCount = 0
    /\ now = 0
    /\ last = NoLast
    /\ IdleList
    /\ IdleUi

\* let mut todo_list = load_todos().await?
ProcLoad(p) ==
    /\ procs[p].pc = "start"
    /\ LET ld == load_todos(file, "ok") IN
        /\ file' = ld.file
        /\ procs' = [procs EXCEPT ![p].pc = "loaded", ![p].loaded = ld.list,
                                  ![p].loadedAt = saveCount]
    /\ UNCHANGED <<saveCount, now, last, listVars, uiVars>>

\* quick_add_todo after its load: create_todo, add_todo, save
ProcQuickAddSave(p) ==
    /\ procs[p].pc = "loaded"
    /\ procs[p].op = "quick_add"
    /\ LET c == create_todo(procs[p].loaded, TitleOf(p), now)
           l == add_todo(c.list, c.todo)
           w == save_todos(file, l, "ok")
       IN  /\ file' = w.file
           /\ saveCount' = saveCount + 1
           /\ procs' = [procs EXCEPT ![p].pc = IF w.ok THEN "done" ELSE "failed",
                                     ![p].result = l, ![p].new_id = c.todo.id,
                                     ![p].savedAt = saveCount + 1]
    /\ UNCHANGED <<now, last, listVars, uiVars>>

\* update_todo (the command) after its load: update_todo(1, done)?, save
ProcUpdateSave(p) ==
    /\ procs[p].pc = "loaded"
    /\ procs[p].op = "update"
    /\ LET u == update_todo(procs[p].loaded, 1, Some(s_done), None, None, None,
                            None, None, now)
           w == save_todos(file, u.list, "ok")
       IN  IF ~u.ok
           THEN /\ procs' = [procs EXCEPT ![p].pc = "failed"]
                /\ UNCHANGED <<file, saveCount>>
           ELSE /\ file' = w.file
                /\ saveCount' = saveCount + 1
                /\ procs' = [procs EXCEPT ![p].pc = IF w.ok THEN "done" ELSE "failed",
                                          ![p].result = u.list,
                                          ![p].savedAt = saveCount + 1]
    /\ UNCHANGED <<now, last, listVars, uiVars>>

NextProc ==
    \E p \in Proc :
        \/ ProcLoad(p)
        \/ ProcQuickAddSave(p)
        \/ ProcUpdateSave(p)

SpecProc == InitProc /\ [][NextProc]_vars

(***************************************************************************)
(* SpecSearch: one session of the interactive search over a stored         *)
(* collection; each action is one key press, handled and acted upon.       *)
(***************************************************************************)
MaxKeys == 3
MaxQueryLen == 1

SearchChars == {"a"}
SearchNows == {0, 5 * TicksPerSecond}

SearchTodo(id, status) ==
    [Todo_new(<<"a">>, 0) EXCEPT !.id = id, !.status = status,
        !.finished_date = IF status = "Done" THEN Some(0) ELSE None]

\* stored collections: ids as create_todo issued them, some tasks deleted since
SearchLists ==
    { [next_id |-> 2, todos |-> <<SearchTodo(1, "Todo")>>],
      [next_id |-> 3, todos |-> <<SearchTodo(1, "Done"), SearchTodo(2, "Todo")>>],
      [next_id |-> 1001, todos |-> <<SearchTodo(1, "Todo"), SearchTodo(1000, "Todo")>>],
      [next_id |-> 1002, todos |-> <<SearchTodo(1, "Todo"), SearchTodo(1001, "Todo")>>],
      [next_id |-> 5001, todos |-> <<SearchTodo(2, "InProgress"), SearchTodo(5000, "Todo")>>] }

NoReq ==
    [n |-> 0, key |-> "none", sel |-> None, action |-> "none", target |-> 0,
     changed |-> {}, io |-> "ok", stderr |-> FALSE, failed |-> FALSE]

InitSearch ==
    /\ file \in {FileOf(l) : l \in SearchLists}
    /\ now \in SearchNows
    /\ search = TodoSearcher_new(file, now).s
    /\ req = NoReq
    /\ last = NoLast
    /\ IdleList
    /\ IdleProc
    /\ IdleForm
    /\ IdleFn

TodoOf(l, id) ==
    LET pos == position(l.todos, id) IN
    IF pos = 0 THEN None ELSE Some(l.todos[pos])

IdsOf(l) == {l.todos[i].id : i \in 1..Len(l.todos)}

\* the ids whose stored task differs between two files
ChangedIds(f, g) ==
    {id \in IdsOf(Stored(f)) \cup IdsOf(Stored(g)) :
        TodoOf(Stored(f), id) # TodoOf(Stored(g), id)}

SelectedId(s) ==
    IF s.focus_on_search \/ ~IsSome(get_selected_todo(s)) THEN None
    ELSE Some(Unwrap(get_selected_todo(s)).id)

\* the loop runs until should_quit is set or an error leaves run_search_todo
SearchOpen == ~search.should_quit /\ ~req.failed /\ req.n < MaxKeys

PressKeyUnder(key, io) ==
    \E r \in {run_search_step(file, search, key, now, io)} :
        /\ file' = r.file
        /\ search' = r.s
        /\ req' = [n |-> req.n + 1, key |-> key, sel |-> SelectedId(search),
                   action |-> r.action, target |-> r.target,
                   changed |-> ChangedIds(file, r.file), io |-> io,
                   stderr |-> r.stderr, failed |-> r.failed]
        /\ UNCHANGED <<now, last, listVars, procVars, formVars, fnVars>>

PressKey(key) == PressKeyUnder(key, "ok")

SearchExit ==
    /\ SearchOpen
    /\ \E key \in {"Esc", "CtrlX"} : PressKey(key)

SearchAdd ==
    /\ SearchOpen
    /\ PressKey("CtrlA")

SearchHelp ==
    /\ SearchOpen
    /\ PressKey("F1")

SearchSlash ==
    /\ SearchOpen
    /\ PressKey("/")

SearchUp ==
    /\ SearchOpen
    /\ PressKey("Up")

SearchDown ==
    /\ SearchOpen
    /\ PressKey("Down")

SearchEnter ==
    /\ SearchOpen
    /\ PressKey("Enter")

SearchIncrease ==
    /\ SearchOpen
    /\ \E key \in {"=", "+"} : PressKey(key)

SearchDecrease ==
    /\ SearchOpen
    /\ PressKey("-")

SearchArchive ==
    /\ SearchOpen
    /\ PressKey("CtrlR")

SearchDone ==
    /\ SearchOpen
    /\ PressKey("CtrlD")

SearchType ==
    /\ SearchOpen
    /\ Len(search.query) < MaxQueryLen
    /\ \E key \in SearchChars : PressKey(key)

SearchBackspace ==
    /\ SearchOpen
    /\ PressKey("Backspace")

NextSearch ==
    \/ SearchExit
    \/ SearchAdd
    \/ SearchHelp
    \/ SearchSlash
    \/ SearchUp
    \/ SearchDown
    \/ SearchEnter
    \/ SearchIncrease
    \/ SearchDecrease
    \/ SearchArchive
    \/ SearchDone
    \/ SearchType
    \/ SearchBackspace

SpecSearch == InitSearch /\ [][NextSearch]_vars

(***************************************************************************)
(* SpecForm: one session of the add form or of the edit form; each action  *)
(* is one key event.  A save may meet a failing load or a failing write.   *)
(***************************************************************************)
MaxFormEdits == 1

FormChars == {"b", " "}
IoOutcomes == {"ok", "load_err", "save_err"}

\* the titles run_add_todo is started with
FormTitles == {None, Some(<<"a">>), Some(Rep("a", MaxTitleLen + 1))}

\* a stored task the edit form is opened on; update_todo stores any category
EditTodo(category) ==
    [Todo_new(<<"a">>, 0) EXCEPT !.id = 1, !.tags = <<<<"a">>>>,
                                 !.category = Some(category)]

EditFiles ==
    {FileOf([next_id |-> 2, todos |-> <<EditTodo(c)>>]) :
        c \in {<<"c">>, Rep("c", MaxCategoryLen + 1)}}

NoEv ==
    [key |-> "none", focus |-> 0, valid |-> FALSE, io |-> "ok",
     attempted |-> FALSE, saved |-> FALSE, edits |-> 0]

InitForm ==
    /\ \/ /\ file \in {FileMissing, FileOneTask}
          /\ \E title \in FormTitles : form = TodoCreator_new(title)
       \/ /\ file \in EditFiles
          /\ form = TodoEditor_new(file, 1)
    /\ ev = NoEv
    /\ now = 0
    /\ last = NoLast
    /\ IdleList
    /\ IdleProc
    /\ IdleSearch
    /\ IdleFn

\* one turn of the loop in run_add_todo / run_edit_todo
PressFormKey(key, io) ==
    \E r \in {form_handle_event(form, file, key, now, io)} :
        /\ r.form.fields = form.fields \/ ev.edits < MaxFormEdits
        /\ form' = r.form
        /\ file' = r.file
        /\ ev' = [key |-> key, focus |-> form.focused_field,
                  valid |-> from_fields(form.fields).ok, io |-> io,
                  attempted |-> r.attempted, saved |-> r.saved,
                  edits |-> IF r.form.fields = form.fields THEN ev.edits
                            ELSE ev.edits + 1]
        /\ UNCHANGED <<now, last, listVars, procVars, searchVars, fnVars>>

FormEnter ==
    /\ form.open
    /\ \E io \in IoOutcomes : PressFormKey("Enter", io)

FormTab ==
    /\ form.open
    /\ PressFormKey("Tab", "ok")

FormBackTab ==
    /\ form.open
    /\ PressFormKey("BackTab", "ok")

FormEsc ==
    /\ form.open
    /\ \E io \in IoOutcomes : PressFormKey("Esc", io)

FormCtrlX ==
    /\ form.open
    /\ \E io \in IoOutcomes : PressFormKey("CtrlX", io)

FormCtrlS ==
    /\ form.open
    /\ \E io \in IoOutcomes : PressFormKey("CtrlS", io)

FormCtrlR ==
    /\ form.open
    /\ PressFormKey("CtrlR", "ok")

FormUp ==
    /\ form.open
    /\ PressFormKey("Up", "ok")

FormDown ==
    /\ form.open
    /\ PressFormKey("Down", "ok")

FormType ==
    /\ form.open
    /\ \E key \in FormChars : PressFormKey(key, "ok")

FormBackspace ==
    /\ form.open
    /\ PressFormKey("Backspace", "ok")

NextForm ==
    \/ FormEnter
    \/ FormTab
    \/ FormBackTab
    \/ FormEsc
    \/ FormCtrlX
    \/ FormCtrlS
    \/ FormCtrlR
    \/ FormUp
    \/ FormDown
    \/ FormType
    \/ FormBackspace

SpecForm == InitForm /\ [][NextForm]_vars

(***************************************************************************)
(* SpecTags: the operations that write a task's tag list: the add form's   *)
(* save, the edit form's save and update_todo with a tag delta.            *)
(***************************************************************************)
MaxTagTasks == 1

s_long_tag == Rep("x", MaxTagLen + 1)

\* contents of the tags field of a form
TagFields == {<<>>, <<"a">>, <<"a", ",", "a">>, <<"A", " ", "b">>, <<"b", ",", "a">>}

\* tag deltas given to update_todo
TagDeltas ==
    {<<"+", "a">>, <<"-", "a">>, <<"+", "B">>, <<"+", "a", " ", "b">>,
     <<"+">> \o s_long_tag}

InitTags ==
    /\ file \in {FileMissing, FileEmpty}
    /\ now = 0
    /\ last = NoLast
    /\ IdleList
    /\ IdleProc
    /\ IdleUi

TagsAddSave ==
    \E tags \in TagFields :
        /\ Stored(file).next_id <= MaxTagTasks
        /\ \E r \in {creator_save_todo(file, [EmptyFields EXCEPT !.title = s_a,
                                                               !.tags = tags],
                                       now, "ok")} :
            /\ file' = r.file
            /\ last' = [op |-> "add_save", id |-> Stored(file).next_id, ok |-> r.ok]
        /\ UNCHANGED <<now, listVars, procVars, uiVars>>

\* the edit form opened on a stored task, its tags field rewritten, then saved
TagsEditSave ==
    \E i \in 1..Len(Stored(file).todos), tags \in TagFields :
        \E r \in {editor_save_todo(file, Stored(file).todos[i].id,
                                   [load_from_todo(Stored(file).todos[i])
                                        EXCEPT !.tags = tags], now, "ok")} :
            /\ file' = r.file
            /\ last' = [op |-> "edit_save", id |-> Stored(file).todos[i].id,
                        ok |-> r.ok]
            /\ UNCHANGED <<now, listVars, procVars, uiVars>>

TagsUpdate ==
    \E i \in 1..Len(Stored(file).todos), delta \in TagDeltas :
        \E r \in {cmd_update_todo(file, Stored(file).todos[i].id, None, None,
                                  Some(delta), None, None, None, now, "ok")} :
            /\ file' = r.file
            /\ last' = [op |-> "update_todo", id |-> Stored(file).todos[i].id,
                        ok |-> r.ok]
            /\ UNCHANGED <<now, listVars, procVars, uiVars>>

NextTags ==
    \/ TagsAddSave
    \/ TagsEditSave
    \/ TagsUpdate

SpecTags == InitTags /\ [][NextTags]_vars

(***************************************************************************)
(* SpecTagsFn: validate_and_normalize_tags applied to one input text.      *)
(***************************************************************************)
MaxTagInputLen == 3

TagAlphabet == {"a", "B", " ", ","}

Strings(n) == UNION {[1..k -> TagAlphabet] : k \in 0..n}

s_bug_fix_urgent ==
    <<"B", "u", "g", " ", "F", "i", "x", ",", " ", "u", "r", "g", "e", "n", "t",
      ",", " ", "u", "r", "g", "e", "n", "t">>

TagInputs ==
    Strings(MaxTagInputLen)
        \cup {s_bug_fix_urgent, Rep("a", MaxTagLen), s_long_tag,
              <<"a", ",">> \o s_long_tag}

InitTagsFn ==
    /\ fnArg \in TagInputs
    /\ fnOut = None
    /\ file = FileMissing
    /\ now = 0
    /\ last = NoLast
    /\ IdleList
    /\ IdleProc
    /\ IdleSearch
    /\ IdleForm

ApplyNormalizeTags ==
    /\ fnOut = None
    /\ fnOut' = Some(validate_and_normalize_tags(fnArg))
    /\ UNCHANGED <<fnArg, opVars, listVars, procVars, searchVars, formVars>>

NextTagsFn == ApplyNormalizeTags

SpecTagsFn == InitTagsFn /\ [][NextTagsFn]_vars

(***************************************************************************)
(* SpecDelta: update_tags applied to a tag list with one delta string,     *)
(* then applied once more with the same string.                            *)
(***************************************************************************)
MaxDeltaTokens == 3

\* the comma-separated tokens a delta string is made of
DeltaTokens ==
    {<<"+", "a">>, <<"-", "a">>, <<"+", "b">>, <<"-", "b">>, <<"a">>, <<"+", "B">>}

DeltaTokenLists == UNION {[1..k -> DeltaTokens] : k \in 1..MaxDeltaTokens}

\* tag lists as the operations store them
DeltaTagLists ==
    {<<>>, <<<<"a">>>>, <<<<"b">>>>, <<<<"a">>, <<"b">>>>, <<<<"b">>, <<"a">>>>}

InitDelta ==
    /\ \E tags \in DeltaTagLists, tokens \in DeltaTokenLists :
            fnArg = [tags |-> tags, tokens |-> tokens, delta |-> join(tokens, ",")]
    /\ fnOut = <<>>
    /\ file = FileMissing
    /\ now = 0
    /\ last = NoLast
    /\ IdleList
    /\ IdleProc
    /\ IdleSearch
    /\ IdleForm

ApplyDelta ==
    /\ fnOut = <<>>
    /\ fnOut' = <<update_tags(fnArg.tags, fnArg.delta)>>
    /\ UNCHANGED <<fnArg, opVars, listVars, procVars, searchVars, formVars>>

ApplyDeltaAgain ==
    /\ Len(fnOut) = 1
    /\ fnOut' = Append(fnOut, update_tags(fnOut[1], fnArg.delta))
    /\ UNCHANGED <<fnArg, opVars, listVars, procVars, searchVars, formVars>>

NextDelta ==
    \/ ApplyDelta
    \/ ApplyDeltaAgain

SpecDelta == InitDelta /\ [][NextDelta]_vars

(***************************************************************************)
(* SpecFields: the operations that write a task's text fields: quick add,  *)
(* the add form's save, the edit form's save and update_todo.              *)
(***************************************************************************)
MaxFieldTasks == 1

FieldTitles == {<<"a">>, <<" ">>, Rep("a", MaxTitleLen + 1)}
FormFieldTitles == {<<" ", "b", " ">>, <<" ">>, Rep("a", MaxTitleLen + 1)}
FieldCategories == {None, Some(<<"c">>), Some(Rep("c", MaxCategoryLen + 1))}
FieldProjects == {None, Some(<<"p">>), Some(Rep("p", MaxProjectLen + 1))}
FieldNotes == {None, Some(Rep("n", MaxNotesLen + 1))}

InitFields ==
    /\ file \in {FileMissing, FileEmpty}
    /\ now = 0
    /\ last = NoLast
    /\ IdleList
    /\ IdleProc
    /\ IdleUi

FieldsQuickAdd ==
    \E title \in FieldTitles :
        /\ Stored(file).next_id <= MaxFieldTasks
        /\ \E r \in {quick_add_todo(file, title, now, "ok")} :
            /\ file' = r.file
            /\ last' = [op |-> "quick_add", id |-> Stored(file).next_id, ok |-> r.ok]
        /\ UNCHANGED <<now, listVars, procVars, uiVars>>

FieldsAddSave ==
    \E title \in FormFieldTitles, category \in FieldCategories :
        /\ Stored(file).next_id <= MaxFieldTasks
        /\ \E r \in {creator_save_todo(file,
                        [EmptyFields EXCEPT !.title = title,
                            !.category = IF IsSome(category) THEN Unwrap(category)
                                         ELSE <<>>],
                        now, "ok")} :
            /\ file' = r.file
            /\ last' = [op |-> "add_save", id |-> Stored(file).next_id, ok |-> r.ok]
        /\ UNCHANGED <<now, listVars, procVars, uiVars>>

\* the edit form opened on a stored task, its title rewritten, then saved
FieldsEditSave ==
    \E i \in 1..Len(Stored(file).todos), title \in FormFieldTitles :
        \E r \in {editor_save_todo(file, Stored(file).todos[i].id,
                                   [load_from_todo(Stored(file).todos[i])
                                        EXCEPT !.title = title], now, "ok")} :
            /\ file' = r.file
            /\ last' = [op |-> "edit_save", id |-> Stored(file).todos[i].id,
                        ok |-> r.ok]
            /\ UNCHANGED <<now, listVars, procVars, uiVars>>

FieldsUpdate ==
    \E i \in 1..Len(Stored(file).todos), category \in FieldCategories,
       project \in FieldProjects, notes \in FieldNotes :
        \E r \in {cmd_update_todo(file, Stored(file).todos[i].id, None, None, None,
                                  category, project, notes, now, "ok")} :
            /\ file' = r.file
            /\ last' = [op |-> "update_todo", id |-> Stored(file).todos[i].id,
                        ok |-> r.ok]
            /\ UNCHANGED <<now, listVars, procVars, uiVars>>

NextFields ==
    \/ FieldsQuickAdd
    \/ FieldsAddSave
    \/ FieldsEditSave
    \/ FieldsUpdate

SpecFields == InitFields /\ [][NextFields]_vars

(***************************************************************************)
(* SpecFilter: TodoList::filter_todos applied to a collection and a set of *)
(* arguments.                                                              *)
(***************************************************************************)
MaxFilterTasks == 2

FilterTask(status, category, priority, tags) ==
    [Todo_new(s_a, 0) EXCEPT !.status = status, !.category = category,
                             !.priority = priority, !.tags = tags]

FilterTasks ==
    {FilterTask("Todo", Some(s_work), "P0", <<s_a, s_b>>),
     FilterTask("Archived", Some(s_work), "P0", <<s_a, s_b>>),
     FilterTask("Done", None, "P2", <<>>),
     FilterTask("Archived", Some(s_a), "P2", <<s_a>>),
     FilterTask("Todo", Some(s_a), "P2", <<s_a>>),
     FilterTask("Done", Some(s_work), "P0", <<s_a>>)}

\* collections of at most MaxFilterTasks tasks, ids issued in order
FilterLists ==
    UNION {{[todos |-> [k \in 1..n |-> [ts[k] EXCEPT !.id = k]], next_id |-> n + 1] :
                ts \in [1..n -> FilterTasks]} : n \in 0..MaxFilterTasks}

FilterStatusArgs == {None, Some(s_done), Some(s_archived), Some(s_bogus)}
FilterCategoryArgs == {None, Some(s_work), Some(s_a)}
FilterPriorityArgs == {None, Some(s_p0), Some(s_bogus)}
FilterTagArgs == {None, Some(s_a), Some(<<"a", ",", " ", "b">>), Some(<<"a", ",">>)}

InitFilter ==
    /\ fnArg \in [list : FilterLists, status : FilterStatusArgs,
                  category : FilterCategoryArgs, priority : FilterPriorityArgs,
                  tags : FilterTagArgs, all : BOOLEAN]
    /\ fnOut = None
    /\ IdleList
    /\ IdleProc
    /\ IdleSearch
    /\ IdleForm
    /\ file = FileMissing
    /\ now = 0
    /\ last = NoLast

ApplyFilter ==
    /\ fnOut = None
    /\ fnOut' = Some(TodoList_filter_todos(fnArg.list, fnArg.status, fnArg.category,
                                           fnArg.priority, fnArg.tags, fnArg.all))
    /\ UNCHANGED <<fnArg, searchVars, formVars, procVars, listVars, opVars>>

NextFilter == ApplyFilter

SpecFilter == InitFilter /\ [][NextFilter]_vars

(***************************************************************************)
(* SpecDelete: one of delete_todo, delete_by_category and delete_by_status *)
(* applied to a collection.                                                *)
(***************************************************************************)
MaxDeleteTasks == 3

DeleteTasks ==
    {[Todo_new(s_a, 0) EXCEPT !.status = st, !.category = c] :
        st \in {"Todo", "Done"}, c \in {None, Some(s_work), Some(s_a)}}

\* collections whose tasks carry distinct ids below next_id, in issue order
DeleteLists ==
    UNION {{[todos |-> [k \in 1..Cardinality(ids) |->
                            [ts[k] EXCEPT !.id =
                                CHOOSE i \in ids : Cardinality({m \in ids : m <= i}) = k]],
             next_id |-> MaxDeleteTasks + 1] :
                ts \in [1..Cardinality(ids) -> DeleteTasks]} :
           ids \in SUBSET (1..MaxDeleteTasks)}

DeleteIds == 0..(MaxDeleteTasks + 1)
DeleteCategories == {s_work, s_a, s_b}
DeleteStatusNames == {s_done, s_Todo, s_bogus}

InitDelete ==
    /\ fnArg \in DeleteLists
    /\ fnOut = None
    /\ IdleList
    /\ IdleProc
    /\ IdleSearch
    /\ IdleForm
    /\ file = FileMissing
    /\ now = 0
    /\ last = NoLast

ApplyDeleteTodo ==
    \E id \in DeleteIds :
        /\ fnOut = None
        /\ \E r \in {delete_todo(fnArg, id)} :
              fnOut' = Some([op |-> "delete_todo", id |-> id, name |-> <<>>,
                             ok |-> r.ok, list |-> r.list, count |-> 0])
        /\ UNCHANGED <<fnArg, searchVars, formVars, procVars, listVars, opVars>>

ApplyDeleteByCategory ==
    \E category \in DeleteCategories :
        /\ fnOut = None
        /\ \E r \in {delete_by_category(fnArg, category)} :
              fnOut' = Some([op |-> "delete_by_category", id |-> 0, name |-> category,
                             ok |-> TRUE, list |-> r.list, count |-> r.count])
        /\ UNCHANGED <<fnArg, searchVars, formVars, procVars, listVars, opVars>>

ApplyDeleteByStatus ==
    \E status_str \in DeleteStatusNames :
        /\ fnOut = None
        /\ \E r \in {delete_by_status(fnArg, status_str)} :
              fnOut' = Some([op |-> "delete_by_status", id |-> 0, name |-> status_str,
                             ok |-> r.ok, list |-> r.list, count |-> r.count])
        /\ UNCHANGED <<fnArg, searchVars, formVars, procVars, listVars, opVars>>

NextDelete ==
    \/ ApplyDeleteTodo
    \/ ApplyDeleteByCategory
    \/ ApplyDeleteByStatus

SpecDelete == InitDelete /\ [][NextDelete]_vars

(***************************************************************************)
(* SpecQuery: search_todos and filter_by_special_syntax applied to a slice *)
(* of tasks and a query.                                                   *)
(***************************************************************************)
MaxQueryTasks == 2

QueryTasks ==
    {[Todo_new(s_a, 0) EXCEPT !.tags = <<<<"a", "b">>>>],
     [Todo_new(s_b, 0) EXCEPT !.tags = <<s_a>>, !.category = Some(<<"A">>),
                              !.status = "Archived", !.priority = "P0"],
     [Todo_new(s_b, 0) EXCEPT !.category = Some(s_a), !.status = "Done",
                              !.priority = "P0", !.finished_date = Some(0)],
     [Todo_new(<<"P", "9">>, 0) EXCEPT !.status = "InProgress"],
     [Todo_new(s_b, 0) EXCEPT !.notes = Some(<<"A">>), !.project = Some(<<"!", "b">>)]}

QuerySlices ==
    UNION {{[k \in 1..n |-> [ts[k] EXCEPT !.id = k]] : ts \in [1..n -> QueryTasks]} :
           n \in 0..MaxQueryTasks}

Queries ==
    {<<>>, s_a, <<"A">>, <<"#", "a">>, <<"#", "A">>, <<"@", "a">>, <<"@", "A">>,
     <<"!">> \o s_done, <<"!", "D", "o", "n", "e">>, <<"!">> \o s_archived,
     <<"!", "b">>, s_p0, <<"p", "9">>, <<"P", "0">>}

InitQuery ==
    /\ fnArg \in [todos : QuerySlices, query : Queries]
    /\ fnOut = None
    /\ IdleList
    /\ IdleProc
    /\ IdleSearch
    /\ IdleForm
    /\ file = FileMissing
    /\ now = 0
    /\ last = NoLast

ApplySearchTodos ==
    /\ fnOut = None
    /\ fnOut' = Some([op |-> "search_todos",
                      result |-> search_todos(fnArg.todos, fnArg.query)])
    /\ UNCHANGED <<fnArg, searchVars, formVars, procVars, listVars, opVars>>

ApplySpecialSyntax ==
    /\ fnOut = None
    /\ fnOut' = Some([op |-> "filter_by_special_syntax",
                      result |-> filter_by_special_syntax(fnArg.todos, fnArg.query)])
    /\ UNCHANGED <<fnArg, searchVars, formVars, procVars, listVars, opVars>>

NextQuery ==
    \/ ApplySearchTodos
    \/ ApplySpecialSyntax

SpecQuery == InitQuery /\ [][NextQuery]_vars

(***************************************************************************)
(* SpecVisible: the result list of the interactive search, computed by     *)
(* TodoSearcher::filter_todos at some clock reading.                       *)
(***************************************************************************)
MaxVisibleTasks == 2

\* clock readings up to half a second past the fourth second
VisibleNows == 0..((DoneVisibleSeconds + 1) * TicksPerSecond + 1)

VisibleTasks ==
    {Todo_new(s_a, 0),
     [Todo_new(s_b, 0) EXCEPT !.status = "InProgress"],
     [Todo_new(s_a, 0) EXCEPT !.status = "Archived"],
     [Todo_new(s_a, 0) EXCEPT !.status = "Done", !.finished_date = Some(0)],
     [Todo_new(s_a, 0) EXCEPT !.status = "Done", !.finished_date = Some(1)]}

VisibleLists ==
    UNION {{[todos |-> [k \in 1..n |-> [ts[k] EXCEPT !.id = k]], next_id |-> n + 1] :
                ts \in [1..n -> VisibleTasks]} : n \in 0..MaxVisibleTasks}

VisibleQueries == {<<>>, s_a}

InitVisible ==
    /\ fnArg \in [list : VisibleLists, query : VisibleQueries]
    /\ fnOut = None
    /\ now \in VisibleNows
    /\ file = FileMissing
    /\ last = NoLast
    /\ IdleList
    /\ IdleProc
    /\ IdleSearch
    /\ IdleForm

\* the view opened on the stored collection, the query typed, the list computed
ApplyFilterTodos ==
    /\ fnOut = None
    /\ \E s \in {TodoSearcher_new(FileOf(fnArg.list), now).s} :
          fnOut' = Some(filter_todos([s EXCEPT !.query = fnArg.query],
                                     now).filtered_todos)
    /\ UNCHANGED <<fnArg, searchVars, formVars, procVars, listVars, opVars>>

NextVisible == ApplyFilterTodos

SpecVisible == InitVisible /\ [][NextVisible]_vars

(***************************************************************************)
(* SpecPriority: the interactive priority actions applied, one after the   *)
(* other, to a stored collection.  fnArg holds the collection as it was    *)
(* before the last action.                                                 *)
(***************************************************************************)
MaxPriorityTasks == 2

PriorityTask(id, p) ==
    IF id = 1
    THEN [Todo_new(s_a, 0) EXCEPT !.id = id, !.priority = p, !.tags = <<s_a>>,
                                  !.category = Some(s_work)]
    ELSE [Todo_new(s_b, 0) EXCEPT !.id = id, !.priority = p, !.status = "Done",
                                  !.finished_date = Some(0), !.notes = Some(s_a)]

PriorityLists ==
    UNION {{[todos |-> [k \in 1..n |-> PriorityTask(k, ps[k])], next_id |-> n + 1] :
                ps \in [1..n -> Priority]} : n \in 1..MaxPriorityTasks}

PriorityIds == 1..(MaxPriorityTasks + 1)

InitPriority ==
    /\ file \in {FileOf(l) : l \in PriorityLists}
    /\ now = 0
    /\ last = NoLast
    /\ fnArg = None
    /\ fnOut = None
    /\ IdleList
    /\ IdleProc
    /\ IdleSearch
    /\ IdleForm

ChangePriority(op, increase) ==
    \E id \in PriorityIds :
        \E r \in {change_todo_priority(file, id, increase, "ok")} :
            /\ file' = r.file
            /\ fnArg' = Some(Stored(file))
            /\ last' = [op |-> op, id |-> id, ok |-> r.ok /\ r.found]
            /\ UNCHANGED <<now, fnOut, searchVars, formVars, procVars, listVars>>

PriorityIncrease ==
    /\ file.state = "data"
    /\ ChangePriority("increase", TRUE)

PriorityDecrease ==
    /\ file.state = "data"
    /\ ChangePriority("decrease", FALSE)

NextPriority ==
    \/ PriorityIncrease
    \/ PriorityDecrease

SpecPriority == InitPriority /\ [][NextPriority]_vars

(***************************************************************************)
(* SpecLoad: load_todos applied to a file on disk under an I/O outcome.    *)
(***************************************************************************)
LoadTexts == {<<>>, <<" ">>, <<"\n", " ", "\t">>, <<" ", "x">>}

LoadDisks ==
    {DiskAbsent} \cup {DiskText(text) : text \in LoadTexts}
        \cup {DiskYaml(l) : l \in VisibleLists}

InitLoad ==
    /\ fnArg \in [disk : LoadDisks, io : IoOutcomes]
    /\ fnOut = None
    /\ file = FileMissing
    /\ now = 0
    /\ last = NoLast
    /\ IdleList
    /\ IdleProc
    /\ IdleSearch
    /\ IdleForm

ApplyLoad ==
    /\ fnOut = None
    /\ fnOut' = Some(load_todos_from_disk(fnArg.disk, fnArg.io))
    /\ UNCHANGED <<fnArg, searchVars, formVars, procVars, listVars, opVars>>

NextLoad == ApplyLoad

SpecLoad == InitLoad /\ [][NextLoad]_vars

(***************************************************************************)
(* SpecSearchIo: the interactive search with the file operations of a step *)
(* succeeding, failing to read or failing to write.  The forms opened by   *)
(* the add and edit arms are left at once and their own I/O succeeds; the  *)
(* outcome falls on the actions and reloads of run_search_todo.            *)
(***************************************************************************)
SearchIoKeys == {"CtrlA", "Up", "Down", "Enter", "=", "-", "CtrlR", "CtrlD", "Esc"}

SearchStepOk ==
    /\ SearchOpen
    /\ \E key \in SearchIoKeys : PressKeyUnder(key, "ok")

SearchStepReadFails ==
    /\ SearchOpen
    /\ \E key \in SearchIoKeys : PressKeyUnder(key, "load_err")

SearchStepWriteFails ==
    /\ SearchOpen
    /\ \E key \in SearchIoKeys : PressKeyUnder(key, "save_err")

NextSearchIo ==
    \/ SearchStepOk
    \/ SearchStepReadFails
    \/ SearchStepWriteFails

SpecSearchIo == InitSearch /\ [][NextSearchIo]_vars

(***************************************************************************)
(* SpecNewTodo: Todo::new_validated applied to a title at some clock        *)
(* reading.                                                                *)
(***************************************************************************)
MaxNewTitleLen == 3

NewTitleAlphabet == {"a", " ", "é"}

\* short titles, and titles around the limit of 200
NewTitles ==
    UNION {[1..k -> NewTitleAlphabet] : k \in 0..MaxNewTitleLen}
        \cup {Rep("a", MaxTitleLen), Rep("a", MaxTitleLen + 1),
              <<" ">> \o Rep("a", MaxTitleLen) \o <<" ">>,
              <<" ">> \o Rep("a", MaxTitleLen + 1),
              Rep("é", MaxTitleLen \div 2), Rep("é", MaxTitleLen \div 2 + 1),
              Rep("é", MaxTitleLen), Rep("é", MaxTitleLen + 1)}

InitNewTodo ==
    /\ fnArg \in NewTitles
    /\ fnOut = None
    /\ now \in 0..MaxTime
    /\ IdleList
    /\ IdleProc
    /\ IdleSearch
    /\ IdleForm
    /\ file = FileMissing
    /\ last = NoLast

ApplyNewValidated ==
    /\ fnOut = None
    /\ fnOut' = Some([op |-> "new_validated", result |-> new_validated(fnArg, now)])
    /\ UNCHANGED <<fnArg, searchVars, formVars, procVars, listVars, opVars>>

NextNewTodo == ApplyNewValidated

SpecNewTodo == InitNewTodo /\ [][NextNewTodo]_vars

(***************************************************************************)
(* SpecTyped: a query typed into the interactive search over a stored      *)
(* collection, the result list computed by TodoSearcher::filter_todos.     *)
(***************************************************************************)
MaxTypedTasks == 2

s_ab == <<"a", "b">>

TypedTasks ==
    {[Todo_new(s_b, 0) EXCEPT !.tags = <<s_ab>>],
     [Todo_new(s_b, 0) EXCEPT !.tags = <<s_a>>, !.status = "Archived"],
     [Todo_new(s_b, 0) EXCEPT !.category = Some(<<"w", "o">>),
                              !.status = "InProgress"],
     [Todo_new(s_a, 0) EXCEPT !.priority = "P0", !.status = "Done",
                              !.finished_date = Some(0)],
     [Todo_new(s_a, 0) EXCEPT !.tags = <<s_a>>, !.category = Some(s_work)]}

TypedLists ==
    UNION {{[todos |-> [k \in 1..n |-> [ts[k] EXCEPT !.id = k]], next_id |-> n + 1] :
                ts \in [1..n -> TypedTasks]} : n \in 0..MaxTypedTasks}

TypedQueries ==
    {<<>>, s_a, <<"#", "a">>, <<"@", "w">>, <<"@", "W">>, <<"!", "d">>,
     <<"!">> \o s_done, s_p0, <<"P", "0">>}

TypedNows == {0, (DoneVisibleSeconds + 1) * TicksPerSecond}

InitTyped ==
    /\ fnArg \in [list : TypedLists, query : TypedQueries]
    /\ fnOut = None
    /\ now \in TypedNows
    /\ file = FileMissing
    /\ last = NoLast
    /\ IdleList
    /\ IdleProc
    /\ IdleSearch
    /\ IdleForm

\* the view opened on the stored collection, the query typed, the list computed
ApplyTypedQuery ==
    /\ fnOut = None
    /\ \E s \in {TodoSearcher_new(FileOf(fnArg.list), now).s} :
          fnOut' = Some([op |-> "typed",
                         result |-> filter_todos([s EXCEPT !.query = fnArg.query],
                                                 now).filtered_todos])
    /\ UNCHANGED <<fnArg, searchVars, formVars, procVars, listVars, opVars>>

NextTyped == ApplyTypedQuery

SpecTyped == InitTyped /\ [][NextTyped]_vars

(***************************************************************************)
(* SpecRender: the interactive search with a running clock.  Every turn of *)
(* the loop draws the view; a turn whose poll times out handles no event.  *)
(***************************************************************************)
MaxIdleTicks == 8

RenderKeys == {"/", "Down", "CtrlD", "a", "Backspace"}

InitRender ==
    /\ file \in {FileOf(l) : l \in SearchLists}
    /\ now = 0
    /\ search = TodoSearcher_new(file, now).s
    /\ req = NoReq
    /\ last = NoLast
    /\ IdleList
    /\ IdleProc
    /\ IdleForm
    /\ IdleFn

\* event::poll returns false for as many turns as make one tick of the clock
RenderIdle ==
    /\ ~search.should_quit
    /\ now < MaxIdleTicks
    /\ now' = now + 1
    /\ UNCHANGED <<file, last, listVars, procVars, uiVars>>

RenderKey ==
    /\ SearchOpen
    /\ \E key \in RenderKeys :
          /\ key \in SearchChars => Len(search.query) < MaxQueryLen
          /\ PressKey(key)

NextRender ==
    \/ RenderIdle
    \/ RenderKey

SpecRender == InitRender /\ [][NextRender]_vars

(***************************************************************************)
(* SpecUpdate: TodoList::update_todo applied to an in-memory collection    *)
(* with a status and a priority argument, one tick after the tasks were    *)
(* created.                                                                *)
(***************************************************************************)
MaxUpdateTasks == 2

UpdateTasks ==
    {Todo_new(s_a, 0),
     [Todo_new(s_a, 0) EXCEPT !.status = "InProgress", !.priority = "P0"],
     [Todo_new(s_a, 0) EXCEPT !.status = "Done", !.finished_date = Some(0)],
     [Todo_new(s_a, 0) EXCEPT !.status = "Archived"]}

UpdateLists ==
    UNION {{[todos |-> [k \in 1..n |-> [ts[k] EXCEPT !.id = k]], next_id |-> n + 1] :
                ts \in [1..n -> UpdateTasks]} : n \in 0..MaxUpdateTasks}

UpdateIds == 0..(MaxUpdateTasks + 1)
UpdateStatusArgs == {None, Some(s_done), Some(s_Todo), Some(s_bogus)}
UpdatePriorityArgs == {None, Some(s_p0), Some(s_bogus)}

InitUpdate ==
    /\ fnArg \in [list : UpdateLists, id : UpdateIds, status : UpdateStatusArgs,
                  priority : UpdatePriorityArgs]
    /\ fnOut = None
    /\ now = 1
    /\ file = FileMissing
    /\ last = NoLast
    /\ IdleList
    /\ IdleProc
    /\ IdleSearch
    /\ IdleForm

ApplyUpdateTodo ==
    /\ fnOut = None
    /\ fnOut' = Some(update_todo(fnArg.list, fnArg.id, fnArg.status, fnArg.priority,
                                 None, None, None, None, now))
    /\ UNCHANGED <<fnArg, searchVars, formVars, procVars, listVars, opVars>>

NextUpdate == ApplyUpdateTodo

SpecUpdate == InitUpdate /\ [][NextUpdate]_vars

(***************************************************************************)
(* SpecShared: an interactive search and an edit form open on a backing    *)
(* file that another process writes as well.  The other process persists   *)
(* a whole command between two steps of the session; the view and the form *)
(* keep the copies they loaded.  fnOut is the history of the session: the   *)
(* ids another process changed since the view (unseen) and the form        *)
(* (form_unseen) loaded, and, after a mutation of the session, the ids     *)
(* among them that the mutation was not aimed at (carried).  req.n counts  *)
(* the steps of the session.                                               *)
(***************************************************************************)
MaxOtherSteps == 2
MaxSharedTasks == 3

SharedLists ==
    { [next_id |-> 2, todos |-> <<SearchTodo(1, "Todo")>>],
      [next_id |-> 3, todos |-> <<SearchTodo(1, "Done"), SearchTodo(2, "Todo")>>] }

SharedKeys == {"Down", "=", "-", "CtrlR", "CtrlD"}

Mutations == {"increase", "decrease", "archive", "done", "add", "edit"}

NoShared ==
    [others |-> 0, unseen |-> {}, form_unseen |-> {}, carried |-> {},
     op |-> "none", target |-> 0]

InitShared ==
    /\ file \in {FileOf(l) : l \in SharedLists}
    /\ now = 0
    /\ search = TodoSearcher_new(file, now).s
    /\ req = NoReq
    /\ form = <<>>
    /\ ev = <<>>
    /\ fnArg = <<>>
    /\ fnOut = NoShared
    /\ last = NoLast
    /\ IdleList
    /\ IdleProc

OtherChanged(id) ==
    [fnOut EXCEPT !.others = @ + 1, !.unseen = @ \cup {id},
                  !.form_unseen = @ \cup {id}, !.carried = {},
                  !.op = "other", !.target = id]

\* another process runs the quick add command
OtherQuickAdd ==
    /\ fnOut.others < MaxOtherSteps
    /\ Len(Stored(file).todos) < MaxSharedTasks
    /\ file' = quick_add_todo(file, s_b, now, "ok").file
    /\ fnOut' = OtherChanged(Stored(file).next_id)
    /\ UNCHANGED <<fnArg, now, last, searchVars, formVars, procVars, listVars>>

\* another process runs the update command on a task
OtherUpdate ==
    /\ fnOut.others < MaxOtherSteps
    /\ \E id \in IdsOf(Stored(file)) :
          /\ file' = cmd_update_todo(file, id, None, None, None, Some(s_work),
                                     None, None, now, "ok").file
          /\ fnOut' = OtherChanged(id)
    /\ UNCHANGED <<fnArg, now, last, searchVars, formVars, procVars, listVars>>

\* one turn of the search loop
SharedKey ==
    /\ SearchOpen
    /\ \E key \in SharedKeys :
        \E r \in {run_search_step(file, search, key, now, "ok")} :
            /\ file' = r.file
            /\ search' = r.s
            /\ req' = [n |-> req.n + 1, key |-> key, sel |-> SelectedId(search),
                       action |-> r.action, target |-> r.target,
                       changed |-> ChangedIds(file, r.file), io |-> "ok",
                       stderr |-> r.stderr, failed |-> r.failed]
            /\ fnOut' = [fnOut EXCEPT
                            !.unseen = IF r.action \in Mutations THEN {} ELSE @,
                            !.carried = IF r.action \in Mutations
                                        THEN fnOut.unseen \ {r.target} ELSE {},
                            !.op = r.action, !.target = r.target]
    /\ UNCHANGED <<fnArg, now, last, formVars, procVars, listVars>>

\* run_edit_todo: the form loads the task
SharedEditOpen ==
    /\ SearchOpen
    /\ form = <<>>
    /\ req' = [req EXCEPT !.n = @ + 1]
    /\ \E id \in IdsOf(Stored(file)) :
          /\ form' = TodoEditor_new(file, id)
          /\ fnOut' = [fnOut EXCEPT !.form_unseen = {}, !.carried = {},
                                    !.op = "open", !.target = id]
    /\ UNCHANGED <<fnArg, ev, file, now, last, search, procVars, listVars>>

\* the priority changed in the form, then Ctrl-S
SharedEditSave ==
    /\ SearchOpen
    /\ form # <<>>
    /\ req' = [req EXCEPT !.n = @ + 1]
    /\ file' = editor_save_todo(file, form.todo_id,
                                [form.fields EXCEPT !.priority = "P1"], now, "ok").file
    /\ form' = <<>>
    /\ fnOut' = [fnOut EXCEPT !.carried = fnOut.form_unseen \ {form.todo_id},
                              !.form_unseen = {},
                              !.op = "edit", !.target = form.todo_id]
    /\ UNCHANGED <<fnArg, ev, now, last, search, procVars, listVars>>

\* run_add_todo with a title typed, then Ctrl-S
SharedAddSave ==
    /\ SearchOpen
    /\ Len(Stored(file).todos) < MaxSharedTasks
    /\ req' = [req EXCEPT !.n = @ + 1]
    /\ file' = creator_save_todo(file, [EmptyFields EXCEPT !.title = s_a], now, "ok").file
    /\ fnOut' = [fnOut EXCEPT !.carried = fnOut.unseen,
                              !.unseen = @ \cup {Stored(file).next_id},
                              !.form_unseen = @ \cup {Stored(file).next_id},
                              !.op = "add", !.target = Stored(file).next_id]
    /\ UNCHANGED <<fnArg, now, last, search, formVars, procVars, listVars>>

NextShared ==
    \/ OtherQuickAdd
    \/ OtherUpdate
    \/ SharedKey
    \/ SharedEditOpen
    \/ SharedEditSave
    \/ SharedAddSave

SpecShared == InitShared /\ [][NextShared]_vars

(***************************************************************************)
(* SpecTerminal: one call of run_search_todo, run_add_todo or              *)
(* run_edit_todo, with the state of the terminal.  fnArg is the call,      *)
(* fnOut the run: where it stands (pc), the terminal (raw mode, alternate  *)
(* screen), the turns of the loop taken and, once returned, the result.    *)
(* Terminal operations succeed unless a draw fails; the load of the        *)
(* constructor and the file operations of a search step may fail.          *)
(***************************************************************************)
MaxTurns == 3

TerminalKeys == {"Down", "Enter", "CtrlA", "CtrlR", "Esc", "CtrlS", "Tab", "a"}

\* TerminalRunner::init and TerminalRunner::recreate
TerminalRunner_init == [raw |-> TRUE, alt |-> TRUE]

\* TerminalRunner::cleanup and TerminalRunner::leave_tui_mode
TerminalRunner_cleanup == [raw |-> FALSE, alt |-> FALSE]

Calls ==
    {[entry |-> "search", id |-> 0], [entry |-> "add", id |-> 0]}
        \cup {[entry |-> "edit", id |-> id] : id \in 1..MaxSharedTasks}

InitTerminal ==
    /\ fnArg \in Calls
    /\ fnOut = [pc |-> "called", term |-> TerminalRunner_cleanup, turns |-> 0,
                ok |-> TRUE]
    /\ file \in {FileMissing} \cup {FileOf(l) : l \in SharedLists}
    /\ now = 0
    /\ search = <<>>
    /\ req = <<>>
    /\ form = <<>>
    /\ ev = <<>>
    /\ last = NoLast
    /\ IdleList
    /\ IdleProc

\* an error leaves the function through `?`: nothing else runs
Returned(ok, term) == [fnOut EXCEPT !.pc = "returned", !.ok = ok, !.term = term]

RunInit ==
    /\ fnOut.pc = "called"
    /\ fnOut' = [fnOut EXCEPT !.pc = "new", !.term = TerminalRunner_init]
    /\ UNCHANGED <<fnArg, file, now, last, searchVars, formVars, procVars, listVars>>

\* TodoSearcher::new(query).await?
RunNewSearcher ==
    /\ fnOut.pc = "new"
    /\ fnArg.entry = "search"
    /\ \E io \in {"ok", "load_err"} :
        \E ld \in {load_todos(file, io)} :
            /\ file' = ld.file
            /\ IF ld.ok
               THEN /\ search' = TodoSearcher_new(file, now).s
                    /\ fnOut' = [fnOut EXCEPT !.pc = "loop"]
               ELSE /\ search' = search
                    /\ fnOut' = Returned(FALSE, fnOut.term)
    /\ UNCHANGED <<fnArg, req, now, last, formVars, procVars, listVars>>

\* TodoCreator::new(title)
RunNewCreator ==
    /\ fnOut.pc = "new"
    /\ fnArg.entry = "add"
    /\ form' = TodoCreator_new(Some(s_a))
    /\ fnOut' = [fnOut EXCEPT !.pc = "loop"]
    /\ UNCHANGED <<fnArg, ev, file, now, last, searchVars, procVars, listVars>>

\* TodoEditor::new(id)?
RunNewEditor ==
    /\ fnOut.pc = "new"
    /\ fnArg.entry = "edit"
    /\ \E io \in {"ok", "load_err"} :
        \E ld \in {load_todos(file, io)} :
            /\ file' = ld.file
            /\ IF ld.ok /\ position(ld.list.todos, fnArg.id) # 0
               THEN /\ form' = TodoEditor_new(ld.file, fnArg.id)
                    /\ fnOut' = [fnOut EXCEPT !.pc = "loop"]
               ELSE /\ form' = form
                    /\ fnOut' = Returned(FALSE, fnOut.term)
    /\ UNCHANGED <<fnArg, ev, now, last, searchVars, procVars, listVars>>

\* terminal.draw(..)?, event::poll(..)? or event::read()? returns an error
RunDrawFails ==
    /\ fnOut.pc = "loop"
    /\ fnOut' = Returned(FALSE, fnOut.term)
    /\ UNCHANGED <<fnArg, file, now, last, searchVars, formVars, procVars, listVars>>

\* one turn of the loop of run_search_todo.  The add and edit arms leave the
\* terminal, run the form and recreate the terminal before they reload.
RunSearchTurn ==
    /\ fnOut.pc = "loop"
    /\ fnArg.entry = "search"
    /\ fnOut.turns < MaxTurns
    /\ \E key \in TerminalKeys, io \in {"ok", "load_err"} :
        \E r \in {run_search_step(file, search, key, now, io)} :
            /\ file' = r.file
            /\ search' = r.s
            /\ fnOut' =
                  IF r.failed THEN Returned(FALSE, TerminalRunner_init)
                  ELSE IF r.s.should_quit THEN Returned(TRUE, TerminalRunner_cleanup)
                  ELSE [fnOut EXCEPT !.turns = @ + 1,
                                     !.term = IF r.action \in {"add", "edit"}
                                              THEN TerminalRunner_init ELSE @]
    /\ UNCHANGED <<fnArg, req, now, last, formVars, procVars, listVars>>

\* one turn of the loop of run_add_todo and run_edit_todo
RunFormTurn ==
    /\ fnOut.pc = "loop"
    /\ fnArg.entry \in {"add", "edit"}
    /\ fnOut.turns < MaxTurns
    /\ \E key \in TerminalKeys, io \in {"ok", "save_err"} :
        \E r \in {form_handle_event(form, file, key, now, io)} :
            /\ file' = r.file
            /\ form' = r.form
            /\ fnOut' = IF ~r.form.open THEN Returned(TRUE, TerminalRunner_cleanup)
                        ELSE [fnOut EXCEPT !.turns = @ + 1]
    /\ UNCHANGED <<fnArg, ev, now, last, searchVars, procVars, listVars>>

NextTerminal ==
    \/ RunInit
    \/ RunNewSearcher
    \/ RunNewCreator
    \/ RunNewEditor
    \/ RunDrawFails
    \/ RunSearchTurn
    \/ RunFormTurn

SpecTerminal == InitTerminal /\ [][NextTerminal]_vars

(***************************************************************************)
(* C1: in one Task Collection, after any sequence of create_todo,          *)
(* add_todo, delete_todo, delete_by_category, delete_by_status and         *)
(* update_todo, every id create_todo returned is >= 1 and differs from     *)
(* every id it returned earlier (ids of deleted tasks included), the tasks *)
(* of the collection have pairwise distinct ids, and next_id never         *)
(* decreases and stays greater than every id in the collection.            *)
(***************************************************************************)
IssuedIdsFresh ==
    \A i \in 1..Len(issued) :
        issued[i] >= 1 /\ \A j \in 1..(i - 1) : issued[j] # issued[i]

DistinctIds(todos) ==
    \A i, j \in 1..Len(todos) : i # j => todos[i].id # todos[j].id

NextIdAbove(l) == \A i \in 1..Len(l.todos) : l.todos[i].id < l.next_id

C1_IdsUniqueAndMonotonic ==
    /\ [](IssuedIdsFresh /\ DistinctIds(list.todos) /\ NextIdAbove(list))
    /\ [][list'.next_id >= list.next_id]_vars

\* both ids were issued and added, task 1 was deleted, task 2 is stored
C1_Witness ==
    /\ issued = <<1, 2>>
    /\ pending = {}
    /\ Len(list.todos) = 1
    /\ list.todos[1].id = 2
    /\ list.next_id = 3

(***************************************************************************)
(* C2: update_todo with a status argument: Todo->Done and InProgress->Done *)
(* set finished_date to the current time; Done->Todo and Done->InProgress  *)
(* clear it; every transition into or out of Archived, and every update    *)
(* that keeps the status, leaves finished_date unchanged.                  *)
(***************************************************************************)
StatusRuleHolds(old, new, t) ==
    /\ (old.status \in {"Todo", "InProgress"} /\ new.status = "Done")
            => new.finished_date = Some(t)
    /\ (old.status = "Done" /\ new.status \in {"Todo", "InProgress"})
            => new.finished_date = None
    /\ (old.status = "Archived" \/ new.status = "Archived" \/ old.status = new.status)
            => new.finished_date = old.finished_date

C2_FinishedDateRule ==
    [][last'.op = "update_todo" =>
         /\ Len(Stored(file').todos) = Len(Stored(file).todos)
         /\ \A i \in 1..Len(Stored(file).todos) :
                StatusRuleHolds(Stored(file).todos[i], Stored(file').todos[i], now)]_vars

\* an update has just stamped a task Done at a time after its creation
C2_Witness ==
    /\ last.op = "update_todo"
    /\ last.ok
    /\ \E i \in 1..Len(Stored(file).todos) :
          LET todo == Stored(file).todos[i] IN
          /\ todo.id = last.id
          /\ todo.status = "Done"
          /\ todo.finished_date = Some(now)
          /\ todo.created_date < now

(***************************************************************************)
(* C3 as claimed: in every reachable state no task is Done with            *)
(* finished_date unset and none is Todo or InProgress with finished_date   *)
(* set.                                                                    *)
(***************************************************************************)
C3_Original ==
    \A i \in 1..Len(Stored(file).todos) :
        LET todo == Stored(file).todos[i] IN
        /\ todo.status = "Done" => IsSome(todo.finished_date)
        /\ todo.status \in {"Todo", "InProgress"} => ~IsSome(todo.finished_date)

(***************************************************************************)
(* C3 as amended: finished_date is never edited directly.  A task is       *)
(* created with finished_date unset; finished_date turns from unset to set *)
(* only in a step that leaves the task Done, and from set to unset only in *)
(* a step that moves the task from Done to Todo or InProgress.             *)
(***************************************************************************)
C3_FinishedDateOnlyByRule ==
    [][\A j \in 1..Len(Stored(file').todos) :
          LET new == Stored(file').todos[j]
              pos == position(Stored(file).todos, new.id)
          IN  IF pos = 0 THEN new.finished_date = None
              ELSE LET old == Stored(file).todos[pos] IN
                   /\ (~IsSome(old.finished_date) /\ IsSome(new.finished_date))
                          => new.status = "Done"
                   /\ (IsSome(old.finished_date) /\ ~IsSome(new.finished_date))
                          => (old.status = "Done" /\ new.status \in {"Todo", "InProgress"})]_vars

\* a task reopened after Done -> Archived: Todo with finished_date still set
C3_Witness ==
    \E i \in 1..Len(Stored(file).todos) :
        LET todo == Stored(file).todos[i] IN
        /\ todo.status \in {"Todo", "InProgress"}
        /\ IsSome(todo.finished_date)
        /\ last.op \in {"update_todo", "edit_save"}

(***************************************************************************)
(* C4: two processes that each run load -> mutate -> save on the same file *)
(* take no lock and make no version check.  When q loads before p saves    *)
(* and saves after p, q's save overwrites p's: the file is then exactly    *)
(* what q computed from the collection it loaded, p's change (its newly    *)
(* added task) is absent, two quick adds that loaded the same collection   *)
(* have allocated the same id, and neither process reports an error.       *)
(***************************************************************************)
HasTitle(l, title) == \E i \in 1..Len(l.todos) : l.todos[i].title = title

\* p saved first, q loaded before that save and is the last process to save
Overwrote(q, p) ==
    /\ p # q
    /\ procs[p].pc \in {"done", "failed"}
    /\ procs[p].savedAt > 0
    /\ procs[q].savedAt = saveCount
    /\ procs[p].savedAt < procs[q].savedAt
    /\ procs[q].loadedAt < procs[p].savedAt

C4_LastWriterWins ==
    \A p, q \in Proc :
        Overwrote(q, p) =>
            /\ procs[p].pc = "done" /\ procs[q].pc = "done"
            /\ file = FileOf(procs[q].result)
            /\ procs[p].op = "quick_add" => ~HasTitle(Stored(file), TitleOf(p))
            /\ (procs[p].op = "quick_add" /\ procs[q].op = "quick_add"
                    /\ procs[p].loaded = procs[q].loaded)
                  => procs[p].new_id = procs[q].new_id

\* two quick adds loaded the same file; both saved; the first one's task is lost
C4_Witness ==
    \E p, q \in Proc :
        /\ Overwrote(q, p)
        /\ procs[p].op = "quick_add" /\ procs[q].op = "quick_add"
        /\ procs[p].loadedAt = 0 /\ procs[q].loadedAt = 0
        /\ procs[p].new_id = procs[q].new_id
        /\ procs[p].new_id >= 1
        /\ HasTitle(procs[p].result, TitleOf(p))
        /\ ~HasTitle(Stored(file), TitleOf(p))
        /\ HasTitle(Stored(file), TitleOf(q))

(***************************************************************************)
(* C5: in the interactive search, with the task of any id selected in the  *)
(* results list, Enter requests the edit of exactly that task, and the     *)
(* priority-increase, priority-decrease, archive and done keys act on      *)
(* exactly that task and change no other stored task: the integer signal   *)
(* never decodes as another action or another id.                          *)
(***************************************************************************)
KeyAction(key) ==
    CASE key = "Enter" -> "edit"
      [] key \in {"=", "+"} -> "increase"
      [] key = "-" -> "decrease"
      [] key = "CtrlR" -> "archive"
      [] key = "CtrlD" -> "done"

ActionKeys == {"Enter", "=", "+", "-", "CtrlR", "CtrlD"}

C5_SignalDecodesExactly ==
    (req.key \in ActionKeys /\ IsSome(req.sel)) =>
        /\ req.action = KeyAction(req.key)
        /\ req.target = Unwrap(req.sel)
        /\ req.changed \subseteq {Unwrap(req.sel)}

(***************************************************************************)
(* C6: after a successful save in the edit form, the stored task with the  *)
(* form's id has title, priority, status, category, project, tags and      *)
(* notes equal to the form's validated values: the tag list is the         *)
(* normalized content of the tags field, and an optional field left empty  *)
(* is stored as unset.                                                     *)
(***************************************************************************)
MatchesForm(todo, d) ==
    /\ todo.title = d.title
    /\ todo.priority = d.priority
    /\ todo.status = d.status
    /\ todo.category = d.category
    /\ todo.project = d.project
    /\ todo.tags = d.tags
    /\ todo.notes = d.notes

C6_EditSavePersistsForm ==
    (form.kind = "edit" /\ ev.saved) =>
        /\ IsSome(TodoOf(Stored(file), form.todo_id))
        /\ MatchesForm(Unwrap(TodoOf(Stored(file), form.todo_id)),
                       from_fields(form.fields).val)

(***************************************************************************)
(* C7: in the add form and the edit form, Enter with the title field       *)
(* focused, or Ctrl-S with any field focused, runs save_todo and closes    *)
(* the form if and only if validation and persistence succeeded; a save    *)
(* that succeeded stored the task, and when validation fails the form      *)
(* stays open and the stored collection (tasks and next_id) is unchanged.  *)
(***************************************************************************)
\* the task the form stands for is in the file g, saved from form fm over f
Persisted(fm, f, g) ==
    LET id == IF fm.kind = "add" THEN Stored(f).next_id ELSE fm.todo_id
        d == from_fields(fm.fields).val
        todo == TodoOf(Stored(g), id)
    IN  /\ IsSome(todo)
        /\ Unwrap(todo).title = d.title
        /\ Unwrap(todo).priority = d.priority
        /\ Unwrap(todo).status = d.status
        /\ fm.kind = "add" => /\ Stored(g).next_id = Stored(f).next_id + 1
                              /\ MatchesForm(Unwrap(todo), d)

ExplicitSaveKey(e) == e.key = "CtrlS" \/ (e.key = "Enter" /\ e.focus = 0)

C7_ExplicitSaveClosesIffSaved ==
    [][ExplicitSaveKey(ev') =>
            /\ ev'.attempted
            /\ ~form'.open <=> ev'.saved
            /\ ev'.saved => (ev'.valid /\ Persisted(form, file, file'))
            /\ (ev'.valid /\ ev'.io = "ok") => ev'.saved
            /\ ~ev'.valid => (form'.open /\ Stored(file') = Stored(file))]_vars

\* Ctrl-S in the category field of an add form whose title is too long
C7_Witness ==
    /\ form.kind = "add"
    /\ ev.key = "CtrlS"
    /\ ev.focus = 3
    /\ Len(form.fields.title) > MaxTitleLen
    /\ ~ev.valid
    /\ form.open
    /\ Stored(file) = TodoList_default

(***************************************************************************)
(* C8 as stated: Esc or Ctrl-X closes the form at that event whichever     *)
(* field is focused; the task is persisted when validation succeeds; when  *)
(* validation fails the form still closes and the stored collection is     *)
(* unchanged.                                                              *)
(***************************************************************************)
AutoSaveKey(e) == e.key \in {"Esc", "CtrlX"}

NoDuplicates(seq) == \A i, j \in 1..Len(seq) : seq[i] = seq[j] => i = j

WellFormedTag(tag) ==
    /\ to_lowercase(tag) = tag
    /\ ~contains(tag, " ")
    /\ Len(tag) <= MaxTagLen

C9_TagListsWellFormed ==
    \A i \in 1..Len(Stored(file).todos) :
        /\ \A k \in 1..Len(Stored(file).todos[i].tags) :
                WellFormedTag(Stored(file).todos[i].tags[k])
        /\ NoDuplicates(Stored(file).todos[i].tags)

(***************************************************************************)
(* C10: validate_and_normalize_tags splits the input on commas, trims and  *)
(* lowercases each entry, replaces spaces with underscores, drops empty    *)
(* entries and removes duplicates keeping the first occurrence (input      *)
(* `Bug Fix, urgent, urgent` gives [bug_fix, urgent]); it fails if and     *)
(* only if some resulting tag is longer than 30 characters.                *)
(***************************************************************************)
\* seq without the later occurrences of each element
Dedup(seq) ==
    LET F[i \in 0..Len(seq)] ==
            IF i = 0 THEN <<>>
            ELSE IF \E j \in 1..(i - 1) : seq[j] = seq[i] THEN F[i - 1]
            ELSE Append(F[i - 1], seq[i])
    IN  F[Len(seq)]

s_bug_fix == <<"b", "u", "g", "_", "f", "i", "x">>
s_urgent == <<"u", "r", "g", "e", "n", "t">>

C10_NormalizesAndDedupes ==
    IsSome(fnOut) =>
        LET r == Unwrap(fnOut)
            expected == Dedup(normalize_tags(fnArg))
        IN  /\ r.ok <=> (\A i \in 1..Len(expected) : Len(expected[i]) <= MaxTagLen)
            /\ r.ok => r.val = expected
            /\ fnArg = s_bug_fix_urgent => r.val = <<s_bug_fix, s_urgent>>

(***************************************************************************)
(* C11 as stated: `+t` on a list that has t and `-t` on a list that lacks  *)
(* t leave the tag list unchanged, a token without prefix changes nothing, *)
(* and applying any delta string a second time gives the same tag list as  *)
(* applying it once.                                                       *)
(***************************************************************************)
Elems(seq) == {seq[i] : i \in 1..Len(seq)}

\* the tag a token names, lowercased
TokenTag(token) == to_lowercase(Tail(token))

SimpleCasesUnchanged ==
    Len(fnOut) >= 1 =>
        /\ \A token \in Elems(fnArg.tokens) :
                (Len(fnArg.tokens) = 1 /\ Head(token) = "+"
                        /\ TokenTag(token) \in Elems(fnArg.tags))
                    => fnOut[1] = fnArg.tags
        /\ \A token \in Elems(fnArg.tokens) :
                (Len(fnArg.tokens) = 1 /\ Head(token) = "-"
                        /\ TokenTag(token) \notin Elems(fnArg.tags))
                    => fnOut[1] = fnArg.tags
        /\ (\A token \in Elems(fnArg.tokens) : Head(token) \notin {"+", "-"})
                => fnOut[1] = fnArg.tags

C11_Original ==
    /\ SimpleCasesUnchanged
    /\ Len(fnOut) = 2 => fnOut[2] = fnOut[1]

(***************************************************************************)
(* C11: `+t` on a list that has t and `-t` on a list that lacks t leave    *)
(* the tag list unchanged, a token without prefix changes nothing, and     *)
(* applying a delta string a second time gives a list of the same tags as  *)
(* applying it once (the same list when the delta is a single token); the  *)
(* order of the tags may differ.                                           *)
(***************************************************************************)
C11_DeltaIdempotentUpToOrder ==
    /\ SimpleCasesUnchanged
    /\ Len(fnOut) = 2 =>
            /\ Elems(fnOut[2]) = Elems(fnOut[1])
            /\ Len(fnOut[2]) = Len(fnOut[1])
            /\ Len(fnArg.tokens) = 1 => fnOut[2] = fnOut[1]

\* a delta that re-adds b and then adds a new tag: the second pass reorders
C11_Witness ==
    /\ Len(fnOut) = 2
    /\ fnArg.tags = <<>>
    /\ fnArg.tokens = <<<<"-", "b">>, <<"+", "b">>, <<"+", "a">>>>
    /\ fnOut[1] = <<<<"b">>, <<"a">>>>
    /\ fnOut[2] = <<<<"a">>, <<"b">>>>

(***************************************************************************)
(* C12: after any sequence of quick adds, add-form saves, edit-form saves  *)
(* and update_todo calls, every stored task has a title that is non-empty  *)
(* after trimming and of at most 200 characters, a category of at most 50, *)
(* a project of at most 100 and notes of at most 2000 characters.          *)
(***************************************************************************)
OptWithin(o, n) == IsSome(o) => Len(Unwrap(o)) <= n

FieldsWithinLimits(todo) ==
    /\ trim(todo.title) # <<>>
    /\ Len(todo.title) <= MaxTitleLen
    /\ OptWithin(todo.category, MaxCategoryLen)
    /\ OptWithin(todo.project, MaxProjectLen)
    /\ OptWithin(todo.notes, MaxNotesLen)

C12_StoredFieldsWithinLimits ==
    \A i \in 1..Len(Stored(file).todos) : FieldsWithinLimits(Stored(file).todos[i])

(***************************************************************************)
(* C13: filter_todos with all = false returns no Archived task, whatever   *)
(* the status, category, priority and tags arguments are (status =         *)
(* archived included); with all = true an Archived task that satisfies the *)
(* other clauses is returned.                                              *)
(***************************************************************************)
FilterApplied == IsSome(fnOut)

\* the clauses of a call, a status or priority that does not parse being absent
SatisfiesClauses(todo, a) ==
    /\ (IsSome(a.status) /\ parse_status(Unwrap(a.status)).ok)
            => todo.status = parse_status(Unwrap(a.status)).val
    /\ IsSome(a.category)
            => (IsSome(todo.category) /\ Unwrap(todo.category) = Unwrap(a.category))
    /\ (IsSome(a.priority) /\ parse_priority(Unwrap(a.priority)).ok)
            => todo.priority = parse_priority(Unwrap(a.priority)).val
    /\ IsSome(a.tags)
            => \A k \in 1..Len(split(Unwrap(a.tags), ",")) :
                  trim(split(Unwrap(a.tags), ",")[k]) \in Elems(todo.tags)

C13_ArchivedOnlyWithAll ==
    FilterApplied =>
        /\ ~fnArg.all =>
              \A k \in 1..Len(Unwrap(fnOut)) : Unwrap(fnOut)[k].status # "Archived"
        /\ fnArg.all =>
              \A k \in 1..Len(fnArg.list.todos) :
                  (fnArg.list.todos[k].status = "Archived"
                        /\ SatisfiesClauses(fnArg.list.todos[k], fnArg))
                      => fnArg.list.todos[k] \in Elems(Unwrap(fnOut))

C13_Witness ==
    /\ FilterApplied
    /\ ~fnArg.all
    /\ fnArg.status = Some(s_archived)
    /\ fnArg.category = None /\ fnArg.priority = None /\ fnArg.tags = None
    /\ \E k \in 1..Len(fnArg.list.todos) : fnArg.list.todos[k].status = "Archived"
    /\ Unwrap(fnOut) = <<>>

(***************************************************************************)
(* C14: filter_todos returns, in collection order, exactly the tasks that  *)
(* satisfy every supplied clause (category equal to the string, every      *)
(* comma-separated required tag present, status and priority equal to the  *)
(* parsed values); a status or priority that does not parse is treated as  *)
(* absent: the result is that of the same call without the argument.       *)
(***************************************************************************)
\* result holds exactly the tasks of todos that satisfy Keep, in their order
ExactlyWhere(result, todos, Keep(_)) ==
    LET K == {k \in 1..Len(todos) : Keep(todos[k])} IN
    /\ Len(result) = Cardinality(K)
    /\ \A j \in 1..Len(result) :
          result[j] = todos[CHOOSE k \in K : Cardinality({m \in K : m <= k}) = j]

C14_FilterReturnsExactlyMatching ==
    FilterApplied =>
        /\ ExactlyWhere(Unwrap(fnOut), fnArg.list.todos,
                        LAMBDA todo : /\ fnArg.all \/ todo.status # "Archived"
                                      /\ SatisfiesClauses(todo, fnArg))
        /\ (IsSome(fnArg.status) /\ ~parse_status(Unwrap(fnArg.status)).ok) =>
              Unwrap(fnOut) = TodoList_filter_todos(fnArg.list, None, fnArg.category,
                                                    fnArg.priority, fnArg.tags,
                                                    fnArg.all)
        /\ (IsSome(fnArg.priority) /\ ~parse_priority(Unwrap(fnArg.priority)).ok) =>
              Unwrap(fnOut) = TodoList_filter_todos(fnArg.list, fnArg.status,
                                                    fnArg.category, None, fnArg.tags,
                                                    fnArg.all)

C14_Witness ==
    /\ FilterApplied
    /\ fnArg.status = Some(s_bogus)
    /\ fnArg.tags = Some(<<"a", ",", " ", "b">>)
    /\ Len(fnArg.list.todos) = 2
    /\ Len(Unwrap(fnOut)) = 1

(***************************************************************************)
(* C15: delete_by_category(c) removes exactly the tasks whose category is  *)
(* set and equal to c, leaves every other task in place and in the same    *)
(* relative order, leaves next_id unchanged and returns the number of      *)
(* tasks removed.                                                          *)
(***************************************************************************)
Deleted(op) == IsSome(fnOut) /\ Unwrap(fnOut).op = op

HasCategory(todo, c) == IsSome(todo.category) /\ Unwrap(todo.category) = c

C15_DeleteByCategoryExact ==
    Deleted("delete_by_category") =>
        LET out == Unwrap(fnOut) IN
        /\ ExactlyWhere(out.list.todos, fnArg.todos,
                        LAMBDA todo : ~HasCategory(todo, out.name))
        /\ out.list.next_id = fnArg.next_id
        /\ out.count = Cardinality({k \in 1..Len(fnArg.todos) :
                                        HasCategory(fnArg.todos[k], out.name)})

C15_Witness ==
    /\ Deleted("delete_by_category")
    /\ Unwrap(fnOut).count = 1
    /\ Len(fnArg.todos) = 3
    /\ \E k \in 1..3 : fnArg.todos[k].category = None
    /\ \E k \in 1..3 : /\ IsSome(fnArg.todos[k].category)
                       /\ ~HasCategory(fnArg.todos[k], Unwrap(fnOut).name)

(***************************************************************************)
(* C16: delete_todo(id) removes exactly one task, the first one with that  *)
(* id, and keeps all other tasks in the same relative order; when no task  *)
(* has that id it returns a not-found error and the collection (tasks and  *)
(* next_id) is unchanged.                                                  *)
(***************************************************************************)
\* the indices of the tasks with the given id
IndicesOf(todos, id) == {k \in 1..Len(todos) : todos[k].id = id}

C16_DeleteTodoExact ==
    Deleted("delete_todo") =>
        LET out == Unwrap(fnOut)
            at == IndicesOf(fnArg.todos, out.id)
        IN  IF at = {}
            THEN ~out.ok /\ out.list = fnArg
            ELSE LET first == CHOOSE k \in at : \A m \in at : k <= m IN
                 /\ out.ok
                 /\ Len(out.list.todos) = Len(fnArg.todos) - 1
                 /\ \A j \in 1..Len(out.list.todos) :
                        out.list.todos[j] = fnArg.todos[IF j < first THEN j ELSE j + 1]
                 /\ out.list.next_id = fnArg.next_id

C16_Witness ==
    /\ Deleted("delete_todo")
    /\ Unwrap(fnOut).ok
    /\ Len(fnArg.todos) = 3
    /\ fnArg.todos[2].id = Unwrap(fnOut).id
    /\ Len(Unwrap(fnOut).list.todos) = 2

(***************************************************************************)
(* C17: delete_by_status(s) returns an error and removes nothing when s is *)
(* not a recognized status name; otherwise it removes exactly the tasks    *)
(* with that status, keeps the others in order and returns the number      *)
(* removed.                                                                *)
(***************************************************************************)
C17_DeleteByStatusExact ==
    Deleted("delete_by_status") =>
        LET out == Unwrap(fnOut)
            status == parse_status(out.name)
        IN  IF ~status.ok
            THEN ~out.ok /\ out.list = fnArg
            ELSE /\ out.ok
                 /\ ExactlyWhere(out.list.todos, fnArg.todos,
                                 LAMBDA todo : todo.status # status.val)
                 /\ out.count = Cardinality({k \in 1..Len(fnArg.todos) :
                                                fnArg.todos[k].status = status.val})

C17_Witness ==
    /\ Deleted("delete_by_status")
    /\ Unwrap(fnOut).ok
    /\ Unwrap(fnOut).name = s_Todo
    /\ Unwrap(fnOut).count = 2
    /\ Len(Unwrap(fnOut).list.todos) = 1

(***************************************************************************)
(* C18: filter_by_special_syntax dispatches on the prefix in the order #,  *)
(* @, !, pN.  `#x` returns exactly the tasks having a tag equal to         *)
(* lowercased x (no substring match); `@x` the tasks whose category is set *)
(* and equals x when both are lowercased; `!x` with x, lowercased, a       *)
(* status name the tasks with that status; a two-character `pN` with N in  *)
(* 0..5 the tasks with that priority; a `!x` whose x is not a status name  *)
(* and a two-character `p` query that is not p0..p5 return exactly         *)
(* search_todos(tasks, query).                                             *)
(***************************************************************************)
Queried(op) == IsSome(fnOut) /\ Unwrap(fnOut).op = op

\* the status names of the ! branch, each with its status
StatusFilterNames ==
    {<<<<"t", "o", "d", "o">>, "Todo">>,
     <<<<"i", "n", "p", "r", "o", "g", "r", "e", "s", "s">>, "InProgress">>,
     <<<<"i", "n", "-", "p", "r", "o", "g", "r", "e", "s", "s">>, "InProgress">>,
     <<<<"i", "n", "_", "p", "r", "o", "g", "r", "e", "s", "s">>, "InProgress">>,
     <<<<"d", "o", "n", "e">>, "Done">>,
     <<<<"a", "r", "c", "h", "i", "v", "e", "d">>, "Archived">>}

PriorityDigits == {"0", "1", "2", "3", "4", "5"}

\* what the dispatch returns, CategoryIs(cat, x) being the test of the @ branch
SpecialSyntaxResult(result, todos, q, CategoryIs(_, _)) ==
    IF starts_with(q, "#")
    THEN ExactlyWhere(result, todos,
                      LAMBDA todo : to_lowercase(Tail(q)) \in Elems(todo.tags))
    ELSE IF starts_with(q, "@")
    THEN ExactlyWhere(result, todos,
                      LAMBDA todo : /\ IsSome(todo.category)
                                    /\ CategoryIs(Unwrap(todo.category), Tail(q)))
    ELSE IF starts_with(q, "!")
    THEN IF \E named \in StatusFilterNames : named[1] = to_lowercase(Tail(q))
         THEN ExactlyWhere(result, todos,
                           LAMBDA todo :
                               <<to_lowercase(Tail(q)), todo.status>> \in StatusFilterNames)
         ELSE result = search_todos(todos, q)
    ELSE IF Len(q) = 2 /\ q[1] = "p"
    THEN IF q[2] \in PriorityDigits
         THEN ExactlyWhere(result, todos,
                           LAMBDA todo : Priority_debug(todo.priority) = <<"P", q[2]>>)
         ELSE result = search_todos(todos, q)
    ELSE TRUE

C18_Original ==
    Queried("filter_by_special_syntax") =>
        SpecialSyntaxResult(Unwrap(fnOut).result, fnArg.todos, fnArg.query,
                            LAMBDA cat, x : cat = x)

C18_SpecialSyntaxDispatch ==
    Queried("filter_by_special_syntax") =>
        SpecialSyntaxResult(Unwrap(fnOut).result, fnArg.todos, fnArg.query,
                            LAMBDA cat, x : to_lowercase(cat) = to_lowercase(x))

C18_Witness ==
    /\ Queried("filter_by_special_syntax")
    /\ fnArg.query = <<"@", "a">>
    /\ Len(fnArg.todos) = 2
    /\ fnArg.todos[1].category = Some(<<"A">>)
    /\ fnArg.todos[2].category = Some(s_a)
    /\ Len(Unwrap(fnOut).result) = 2

(***************************************************************************)
(* C19: search_todos(tasks, q) returns, in input order, exactly the        *)
(* non-Archived tasks for which lowercased q is a substring of the         *)
(* lowercased title, notes, some tag, category or project; for every q,    *)
(* the empty query included, the result holds no Archived task.            *)
(***************************************************************************)
\* sub occurs in s
IsSubstring(sub, s) ==
    \E a \in 0..Len(s) : \E b \in a..Len(s) : SubSeq(s, a + 1, b) = sub

SearchableTexts(todo) ==
    {todo.title} \cup Elems(todo.notes) \cup Elems(todo.tags)
        \cup Elems(todo.category) \cup Elems(todo.project)

C19_SearchTodosExact ==
    Queried("search_todos") =>
        /\ ExactlyWhere(Unwrap(fnOut).result, fnArg.todos,
                        LAMBDA todo :
                            /\ todo.status # "Archived"
                            /\ \E text \in SearchableTexts(todo) :
                                  IsSubstring(to_lowercase(fnArg.query),
                                              to_lowercase(text)))
        /\ \A k \in 1..Len(Unwrap(fnOut).result) :
              Unwrap(fnOut).result[k].status # "Archived"

C19_Witness ==
    /\ Queried("search_todos")
    /\ fnArg.query = <<"A">>
    /\ Len(fnArg.todos) = 2
    /\ fnArg.todos[1].status = "Archived"
    /\ fnArg.todos[2].notes = Some(<<"A">>)
    /\ Unwrap(fnOut).result = <<fnArg.todos[2]>>

(***************************************************************************)
(* C20: each time the interactive result list is computed, it contains no  *)
(* Archived task and no Done task whose finished_date lies more than 3     *)
(* seconds (compared exactly, not in whole seconds) before the time of     *)
(* computation, and with an empty query it contains every other task in    *)
(* collection order.                                                       *)
(***************************************************************************)
\* Done and finished more than DoneVisibleSeconds before the clock reading t
StaleDone(todo, t) ==
    /\ todo.status = "Done"
    /\ IsSome(todo.finished_date)
    /\ t - Unwrap(todo.finished_date) > DoneVisibleSeconds * TicksPerSecond

Hidden(todo, t) == todo.status = "Archived" \/ StaleDone(todo, t)

C20_ResultListHidesStaleDone ==
    IsSome(fnOut) =>
        /\ \A k \in 1..Len(Unwrap(fnOut)) : ~Hidden(Unwrap(fnOut)[k], now)
        /\ fnArg.query = <<>> =>
              ExactlyWhere(Unwrap(fnOut), fnArg.list.todos,
                           LAMBDA todo : ~Hidden(todo, now))

(***************************************************************************)
(* C21: the interactive search starts SearchFocused.  Down or Enter while  *)
(* SearchFocused moves to ResultsFocused at index 0 when the result list   *)
(* is non-empty and changes neither focus nor selection when it is empty.  *)
(* Up while ResultsFocused at index 0 returns to SearchFocused.  Up or     *)
(* Down at any other position moves the selection by exactly one and never *)
(* leaves [0, len-1]: Down at the last index changes nothing.              *)
(***************************************************************************)
\* the focus and selection a navigation key leaves behind
FocusStep(s, key, u) ==
    LET len == Len(s.filtered_todos) IN
    IF s.focus_on_search
    THEN (key \in {"Down", "Enter"}) =>
            IF len > 0 THEN ~u.focus_on_search /\ u.selected_index = 0
            ELSE u.focus_on_search /\ u.selected_index = s.selected_index
    ELSE /\ (key = "Up" /\ s.selected_index = 0) => u.focus_on_search
         /\ (key = "Up" /\ s.selected_index > 0) =>
                /\ ~u.focus_on_search
                /\ u.selected_index = s.selected_index - 1
         /\ (key = "Down" /\ s.selected_index < len - 1) =>
                /\ ~u.focus_on_search
                /\ u.selected_index = s.selected_index + 1
         /\ (key = "Down" /\ s.selected_index >= len - 1) =>
                /\ ~u.focus_on_search
                /\ u.selected_index = s.selected_index
         /\ (key \in {"Up", "Down"} /\ len > 0 /\ ~u.focus_on_search) =>
                u.selected_index \in 0..(len - 1)

C21_FocusAndSelectionMoves ==
    [][/\ req.n = 0 => search.focus_on_search
       /\ FocusStep(search, req'.key, search')]_vars

\* Down pressed on the last of two results
C21_Witness ==
    /\ req.key = "Down"
    /\ ~search.focus_on_search
    /\ Len(search.filtered_todos) = 2
    /\ search.selected_index = 1
    /\ req.sel = Some(search.filtered_todos[2].id)

(***************************************************************************)
(* C22: after a priority-increase, priority-decrease or done action on the *)
(* selected task the collection has been saved and reloaded and the        *)
(* current query re-applied; if the acted-upon task is still in the result *)
(* list the selection index points at the task with that id, and the focus *)
(* is still ResultsFocused.  After an archive action the selection index   *)
(* is 0.                                                                   *)
(***************************************************************************)
\* the step carried out the named action on the task that was selected
ActedOnSelected(r, actions) == r.action \in actions /\ r.sel = Some(r.target)

\* the view u shows the stored collection g under the query of the view s
ReloadedWithQuery(s, u, g, t) ==
    /\ g.state = "data"
    /\ u.all_todos = g.data.todos
    /\ u.query = s.query
    /\ u.filtered_todos = filter_todos(u, t).filtered_todos

C22_ActionReloadsAndKeepsSelection ==
    [][/\ ActedOnSelected(req', {"increase", "decrease", "done"}) =>
            /\ ReloadedWithQuery(search, search', file', now)
            /\ ~search'.focus_on_search
            /\ (\E k \in 1..Len(search'.filtered_todos) :
                    search'.filtered_todos[k].id = req'.target)
                  => search'.filtered_todos[search'.selected_index + 1].id = req'.target
       /\ ActedOnSelected(req', {"archive"}) =>
            /\ ReloadedWithQuery(search, search', file', now)
            /\ Unwrap(TodoOf(Stored(file'), req'.target)).status = "Archived"
            /\ search'.selected_index = 0]_vars

\* the priority of the second of two listed tasks lowered, the task still selected
C22_Witness ==
    /\ ActedOnSelected(req, {"decrease"})
    /\ req.changed = {req.target}
    /\ Len(search.filtered_todos) = 2
    /\ search.selected_index = 1
    /\ search.filtered_todos[2].id = req.target
    /\ search.filtered_todos[2].priority = "P3"

(***************************************************************************)
(* C23: the interactive done action on a task whose status is Todo or      *)
(* InProgress sets its status to Done and its finished_date to the time of *)
(* the action, whatever finished_date held before, so the task is still in *)
(* the result list immediately after the action.                           *)
(***************************************************************************)
C23_DoneStampsActionTime ==
    [][(/\ last'.op = "mark_done"
        /\ Unwrap(TodoOf(Stored(file), last'.id)).status \in {"Todo", "InProgress"})
            => LET todo == Unwrap(TodoOf(Stored(file'), last'.id)) IN
               /\ todo.status = "Done"
               /\ todo.finished_date = Some(now)
               /\ should_include_todo(todo, now)]_vars

(***************************************************************************)
(* C24: the interactive priority-increase action maps Pn to P(n-1) and P0  *)
(* to P0, the priority-decrease action maps Pn to P(n+1) and P5 to P5;     *)
(* each changes only the priority of the targeted task: no other field, no *)
(* other task and not next_id.                                             *)
(***************************************************************************)
PriorityDigitChar(n) == <<"0", "1", "2", "3", "4", "5">>[n + 1]

PriorityNumber(p) ==
    CHOOSE n \in 0..5 : Priority_debug(p) = <<"P", PriorityDigitChar(n)>>

PriorityOf(n) == CHOOSE p \in Priority : PriorityNumber(p) = n

\* the priority the named action gives a task of priority p
ShiftedPriority(op, p) ==
    LET n == PriorityNumber(p) IN
    IF op = "increase" THEN PriorityOf(IF n = 0 THEN 0 ELSE n - 1)
    ELSE PriorityOf(IF n = 5 THEN 5 ELSE n + 1)

C24_PriorityActionChangesOnlyPriority ==
    (IsSome(fnArg) /\ last.op \in {"increase", "decrease"} /\ last.ok) =>
        LET before == Unwrap(fnArg)
            after == Stored(file)
            pos == position(before.todos, last.id)
        IN  /\ pos # 0
            /\ after.next_id = before.next_id
            /\ Len(after.todos) = Len(before.todos)
            /\ \A k \in 1..Len(before.todos) :
                  IF k = pos
                  THEN after.todos[k] =
                          [before.todos[k] EXCEPT
                              !.priority = ShiftedPriority(last.op, @)]
                  ELSE after.todos[k] = before.todos[k]

\* P0 raised again: the second task stays at P0, the first is untouched
C24_Witness ==
    /\ IsSome(fnArg)
    /\ last = [op |-> "increase", id |-> 2, ok |-> TRUE]
    /\ Len(Unwrap(fnArg).todos) = 2
    /\ Unwrap(fnArg).todos[2].priority = "P0"
    /\ Stored(file).todos[2].priority = "P0"
    /\ Stored(file).todos[1].priority = "P5"

(***************************************************************************)
(* C25: in the interactive search Esc or Ctrl-X ends the loop at that      *)
(* event in every state (SearchFocused or ResultsFocused, help shown or    *)
(* hidden, any query, empty or non-empty results) and performs no load or  *)
(* save.                                                                   *)
(***************************************************************************)
C25_ExitKeysEndLoop ==
    [][req'.key \in {"Esc", "CtrlX"} =>
            /\ search'.should_quit
            /\ req'.action = "exit"
            /\ file' = file
            /\ search' = [search EXCEPT !.should_quit = TRUE]]_vars

\* Esc pressed in the results list with the help shown
C25_Witness ==
    /\ req.key = "Esc"
    /\ search.should_quit
    /\ ~search.focus_on_search
    /\ search.show_help

(***************************************************************************)
(* C26: loading the collection.  When the backing file does not exist,     *)
(* load returns the empty collection (next_id = 1, no tasks) and writes    *)
(* that collection to the file; when the file exists but is empty or       *)
(* whitespace-only, load returns the empty collection and writes nothing;  *)
(* otherwise it returns the parsed content or a parse error.  (A failed    *)
(* write or read makes the load fail.)                                     *)
(***************************************************************************)
Blank(text) == \A k \in 1..Len(text) : text[k] \in Whitespace

EmptyCollection == [next_id |-> 1, todos |-> <<>>]

C26_LoadCases ==
    IsSome(fnOut) =>
        LET d == fnArg.disk
            io == fnArg.io
            r == Unwrap(fnOut)
        IN  IF ~d.exists
            THEN IF io = "save_err" THEN ~r.ok /\ ~r.written
                 ELSE /\ r.ok /\ r.list = EmptyCollection
                      /\ r.written /\ r.file = FileOf(EmptyCollection)
            ELSE /\ ~r.written
                 /\ IF io = "load_err" THEN ~r.ok
                    ELSE IF Blank(d.content)
                    THEN r.ok /\ r.list = EmptyCollection /\ r.file.state = "empty"
                    ELSE IF IsSome(d.yaml) THEN r.ok /\ r.list = Unwrap(d.yaml)
                    ELSE ~r.ok

\* a file of white space only, loaded
C26_Witness ==
    /\ IsSome(fnOut)
    /\ fnArg.disk = DiskText(<<"\n", " ", "\t">>)
    /\ fnArg.io = "ok"
    /\ Unwrap(fnOut).ok
    /\ Unwrap(fnOut).list = EmptyCollection
    /\ ~Unwrap(fnOut).written

(***************************************************************************)
(* C27: in the interactive search a load or save failure during any action *)
(* (priority change, archive, done, and the reload performed after         *)
(* returning from the add form or the edit form) is reported on stderr and *)
(* does not terminate the session: the loop keeps accepting input.         *)
(***************************************************************************)
StoreActions == {"increase", "decrease", "archive", "done"}

C27_IoFailuresKeepSession ==
    /\ ~req.failed
    /\ (req.action \in StoreActions /\ req.io = "load_err") => req.stderr
    /\ (req.action \in StoreActions /\ req.io = "save_err" /\ req.sel = Some(req.target))
            => req.stderr
    /\ (req.io # "ok" /\ req.key # "Esc") => ~search.should_quit

(***************************************************************************)
(* C28: in the add and edit forms the focused field index is always in     *)
(* 0..6 and exactly one of the 7 field widgets is focused; Tab moves the   *)
(* focus to (i+1) mod 7 and Shift-Tab to (i-1) mod 7, so seven Tabs return *)
(* to the starting field and Tab followed by Shift-Tab is the identity,    *)
(* and neither changes any field's content.                                *)
(***************************************************************************)
FieldIndices == 0..(FieldCount - 1)

SingleFocus(fm) ==
    /\ fm.focused_field \in FieldIndices
    /\ {k \in FieldIndices : fm.widget_focused[k]} = {fm.focused_field}

RECURSIVE Tabs(_, _)
Tabs(i, n) == IF n = 0 THEN i ELSE Tabs(focus_next_field(i), n - 1)

C28_FocusCycles ==
    [][/\ SingleFocus(form)
       /\ SingleFocus(form')
       /\ ev'.key = "Tab" =>
            /\ form'.focused_field = (form.focused_field + 1) % FieldCount
            /\ form'.fields = form.fields
       /\ ev'.key = "BackTab" =>
            /\ form'.focused_field = (form.focused_field - 1) % FieldCount
            /\ form'.fields = form.fields
            /\ focus_next_field(form'.focused_field) = form.focused_field
       /\ Tabs(form.focused_field, FieldCount) = form.focused_field
       /\ focus_previous_field(focus_next_field(form.focused_field))
            = form.focused_field]_vars

\* Shift-Tab pressed in the title field: the notes field has the focus
C28_Witness ==
    /\ ev.key = "BackTab"
    /\ ev.focus = 0
    /\ form.focused_field = FieldCount - 1
    /\ form.widget_focused[FieldCount - 1]
    /\ form.open

(***************************************************************************)
(* C29: new_validated(title) succeeds if and only if the title is           *)
(* non-empty after trimming and at most 200 characters long, counted in     *)
(* characters; on success the task has the trimmed title, id 0, priority    *)
(* P2, status Todo, no tags, no category, project or notes, and no          *)
(* finished_date; on failure no task is constructed.                        *)
(***************************************************************************)
Constructed == IsSome(fnOut) /\ Unwrap(fnOut).op = "new_validated"

FreshTask(todo, title) ==
    /\ todo.title = trim(title)
    /\ todo.id = 0
    /\ todo.priority = "P2"
    /\ todo.status = "Todo"
    /\ todo.tags = <<>>
    /\ todo.category = None
    /\ todo.project = None
    /\ todo.notes = None
    /\ todo.finished_date = None

C29_NewValidatedByCharacters ==
    Constructed =>
        LET r == Unwrap(fnOut).result IN
        /\ r.ok <=> (trim(fnArg) # <<>> /\ Len(trim(fnArg)) <= MaxTitleLen)
        /\ r.ok => FreshTask(r.val, fnArg)
        /\ ~r.ok => r = Err

\* the same statement with the length counted in bytes, as str::len counts
NewValidatedByBytes ==
    Constructed =>
        LET r == Unwrap(fnOut).result IN
        /\ r.ok <=> (trim(fnArg) # <<>> /\ str_len(trim(fnArg)) <= MaxTitleLen)
        /\ r.ok => FreshTask(r.val, fnArg)
        /\ ~r.ok => r = Err

(***************************************************************************)
(* C30: for every query and every task list, the result list the           *)
(* interactive search computes when the user types equals the result of    *)
(* filter_by_special_syntax on the same query, restricted to the tasks     *)
(* that pass the visibility rule: the same tasks in the same order.        *)
(***************************************************************************)
Typed == IsSome(fnOut) /\ Unwrap(fnOut).op = "typed"

VisibleOf(todos) == SelectSeq(todos, LAMBDA todo : should_include_todo(todo, now))

C30_TypedListEqualsEngine ==
    Typed =>
        Unwrap(fnOut).result
            = VisibleOf(filter_by_special_syntax(fnArg.list.todos, fnArg.query))

\* the queries on which the two agree in every collection of the model:
\* the empty query, a plain word, a full status name and a lower-case priority
TypedAgreesOnFullWords ==
    Typed /\ fnArg.query \in {<<>>, s_a, <<"!">> \o s_done, s_p0} =>
        Unwrap(fnOut).result
            = VisibleOf(filter_by_special_syntax(fnArg.list.todos, fnArg.query))

(***************************************************************************)
(* C31: while the interactive search is running and the user presses no    *)
(* key, a Done task disappears from the displayed result list once more    *)
(* than 3 seconds have elapsed since its finished_date: at every render    *)
(* the displayed list contains no Done task finished more than 3 seconds   *)
(* earlier.                                                                *)
(***************************************************************************)
C31_RenderHidesStaleDone ==
    ~search.should_quit =>
        \A k \in 1..Len(search.filtered_todos) :
            ~StaleDone(search.filtered_todos[k], now)

\* what the loop does keep: a turn without an event leaves the displayed list
\* as the last event left it
IdleTurnKeepsList ==
    [][now' # now => search' = search]_vars

(***************************************************************************)
(* C32: in the interactive search the edit, priority-increase,             *)
(* priority-decrease, archive and done signals are emitted only while      *)
(* ResultsFocused with a task selected; while SearchFocused the keys +, =  *)
(* and - are inserted into the query, re-run the filter and reset the      *)
(* selection index to 0, and change no task.                               *)
(***************************************************************************)
TaskActions == {"edit", "increase", "decrease", "archive", "done"}

QueryResult(s, query, t) ==
    SelectSeq(s.all_todos,
              LAMBDA todo : /\ should_include_todo(todo, t)
                            /\ (query = <<>> \/ matches_query(todo, to_lowercase(query))))

C32_ActionsOnlyFromResults ==
    [][/\ req'.action \in TaskActions =>
            /\ ~search.focus_on_search
            /\ IsSome(get_selected_todo(search))
       /\ (search.focus_on_search /\ req'.key \in {"+", "=", "-"}) =>
            /\ req'.action = "none"
            /\ search'.query = Append(search.query, req'.key)
            /\ search'.filtered_todos = QueryResult(search, search'.query, now)
            /\ search'.selected_index = 0
            /\ search'.focus_on_search
            /\ search'.all_todos = search.all_todos
            /\ file' = file]_vars

\* = typed into the empty query: the query is "=" and nothing matches it
C32_Witness ==
    /\ req.key = "="
    /\ req.sel = None
    /\ req.action = "none"
    /\ search.focus_on_search
    /\ search.query = <<"=">>
    /\ search.filtered_todos = <<>>
    /\ search.all_todos # <<>>

(***************************************************************************)
(* C33: after any sequence of key events, actions and reloads in the       *)
(* interactive search, the selection index satisfies                       *)
(* 0 <= selected_index < len whenever the result list is non-empty, and is *)
(* 0 whenever the list is empty.                                           *)
(***************************************************************************)
C33_SelectionInRange ==
    IF search.filtered_todos = <<>>
    THEN search.selected_index = 0
    ELSE /\ 0 <= search.selected_index
         /\ search.selected_index < Len(search.filtered_todos)

\* the last of two listed tasks archived: the selection is back on the first
C33_Witness ==
    /\ req.key = "CtrlR"
    /\ req.action = "archive"
    /\ req.sel = Some(2)
    /\ req.changed = {2}
    /\ ~search.focus_on_search
    /\ Len(search.filtered_todos) = 1
    /\ search.selected_index = 0

(***************************************************************************)
(* C34: whenever the interactive search is ResultsFocused, its result list *)
(* is non-empty and a task is selected; this holds after every archive     *)
(* action, done action and reload following the add or edit form, also     *)
(* when that step removes the last visible task.                           *)
(***************************************************************************)
C34_ResultsFocusedHasSelection ==
    ~search.focus_on_search =>
        /\ search.filtered_todos # <<>>
        /\ IsSome(get_selected_todo(search))

\* the part that holds: the focus moves to the results only over a non-empty
\* list, and a step that does not reload keeps the list
FocusEntersNonEmptyList ==
    [][(search.focus_on_search /\ ~search'.focus_on_search) =>
            /\ search'.filtered_todos # <<>>
            /\ IsSome(get_selected_todo(search'))]_vars

(***************************************************************************)
(* C35: if update_todo returns an error (unknown id, unparsable status,    *)
(* unparsable priority), no field of any task in the in-memory collection  *)
(* has changed; in particular a valid status passed together with an       *)
(* unparsable priority is not applied and finished_date is not touched.    *)
(***************************************************************************)
UpdateFailed == IsSome(fnOut) /\ ~Unwrap(fnOut).ok

C35_FailedUpdateChangesNothing ==
    UpdateFailed => Unwrap(fnOut).list = fnArg.list

\* the errors raised before the first assignment: an unknown id and an
\* unparsable status leave the collection as it was
EarlyErrorChangesNothing ==
    (/\ UpdateFailed
     /\ \/ position(fnArg.list.todos, fnArg.id) = 0
        \/ (IsSome(fnArg.status) /\ ~parse_status(Unwrap(fnArg.status)).ok))
        => Unwrap(fnOut).list = fnArg.list

(***************************************************************************)
(* C36: every interactive mutation (priority change, archive, done,        *)
(* add-form save, edit-form save) is applied to a collection loaded from   *)
(* storage at the time of the action, not to the view-model's copy: a task *)
(* added, or a change made to a different task, by another process and     *)
(* persisted before the action's load is still present in the file after   *)
(* the action's save.                                                      *)
(***************************************************************************)
C36_MutationsKeepOthersChanges ==
    [][fnOut'.op \in Mutations =>
            /\ \A id \in IdsOf(Stored(file)) \ {fnOut'.target} :
                    TodoOf(Stored(file'), id) = TodoOf(Stored(file), id)
            /\ Stored(file').next_id >= Stored(file).next_id]_vars

\* a task archived from a view that had not seen the task another process
\* added: both are in the file
C36_Witness ==
    /\ fnOut.op = "archive"
    /\ req.changed = {fnOut.target}
    /\ fnOut.carried # {}
    /\ \E id \in fnOut.carried :
          /\ IsSome(TodoOf(Stored(file), id))
          /\ Unwrap(TodoOf(Stored(file), id)).title = s_b
    /\ Unwrap(TodoOf(Stored(file), fnOut.target)).status = "Archived"

(***************************************************************************)
(* C37: filter_by_special_syntax returns no Archived task for any query    *)
(* other than !archived: the #tag, @category and pN forms exclude Archived *)
(* tasks just as the free-text fallback does.                              *)
(***************************************************************************)
SpecialSyntaxApplied ==
    IsSome(fnOut) /\ Unwrap(fnOut).op = "filter_by_special_syntax"

NoArchived(todos) == \A k \in 1..Len(todos) : todos[k].status # "Archived"

C37_SpecialSyntaxHidesArchived ==
    (SpecialSyntaxApplied /\ to_lowercase(fnArg.query) # <<"!">> \o s_archived)
        => NoArchived(Unwrap(fnOut).result)

\* the free-text fallback does exclude them
FallbackHidesArchived ==
    (/\ SpecialSyntaxApplied
     /\ fnArg.query # <<>>
     /\ fnArg.query[1] \notin {"#", "@", "!", "p"})
        => NoArchived(Unwrap(fnOut).result)

(***************************************************************************)
(* C38: a successful commit in the add form appends exactly one task at    *)
(* the end of the persisted collection, with id equal to the previously    *)
(* stored next_id, and increases the stored next_id by exactly one,        *)
(* leaving all existing tasks unchanged; a commit that fails validation    *)
(* allocates no id and writes nothing.                                     *)
(***************************************************************************)
AppendedOne(old, new) ==
    /\ Len(new.todos) = Len(old.todos) + 1
    /\ SubSeq(new.todos, 1, Len(old.todos)) = old.todos
    /\ new.todos[Len(new.todos)].id = old.next_id
    /\ new.next_id = old.next_id + 1

C38_AddFormAppendsOne ==
    [][(form.kind = "add" /\ ev'.attempted) =>
            /\ ev'.saved => AppendedOne(Stored(file), Stored(file'))
            /\ ~ev'.valid => (~ev'.saved /\ file' = file)]_vars

\* the add form saved onto a file that held one task
C38_Witness ==
    /\ form.kind = "add"
    /\ ev.saved
    /\ Len(Stored(file).todos) = 2
    /\ Stored(file).todos[2].id = 2
    /\ Stored(file).next_id = 3

(***************************************************************************)
(* C39: every return from run_search_todo, run_add_todo and run_edit_todo, *)
(* including error returns (for example run_edit_todo called with an id    *)
(* that no task has), leaves the terminal restored: raw mode disabled and  *)
(* the alternate screen left.                                              *)
(***************************************************************************)
Restored(term) == ~term.raw /\ ~term.alt

C39_EveryReturnRestoresTerminal ==
    fnOut.pc = "returned" => Restored(fnOut.term)

\* the returns through the end of the function do restore it
OkReturnRestoresTerminal ==
    (fnOut.pc = "returned" /\ fnOut.ok) => Restored(fnOut.term)

====
